---- MODULE Spec2Model ----
(***************************************************************************)
(* Semantic-Bookmarks: the background service worker (src/background.js)   *)
(* and the offscreen scraper (src/offscreen.js), as a state machine.       *)
(*                                                                         *)
(* Persistent state: the three IndexedDB object stores (bookmarks,         *)
(* embeddings, voy_index) and chrome.storage.local.  Volatile state: the   *)
(* globals of the worker (db, voyIndex, keepAliveInterval) and the frame   *)
(* of the running syncBookmarks call.  Every step of an operation is one   *)
(* committed storage transaction or one in-memory mutation, so the worker  *)
(* can be stopped by the host between any two of them.                     *)
(***************************************************************************)
EXTENDS Integers, Sequences, FiniteSets, Bags, TLC

\* ------------------------------------------------------------------ bounds
MaxSyncs == 2
MaxCrashes == 1
MaxTreeEdits == 1
MaxClears == 1
MaxChunks == 2
MaxSearches == 2
MaxCorpus == 45
MaxPage == 3
MaxResumes == 2

\* ------------------------------------------------------- program constants
MIN_SCRAPE_LENGTH == 100
DEFAULT_MAX_LENGTH == 1400
SEARCH_RESULT_LIMIT == 30
SEARCH_NEIGHBORS == 500

\* SIMILARITY_THRESHOLD = 0.5, as a fraction.
SIMILARITY_THRESHOLD == [num |-> 1, den |-> 2]

INDEXED_FOLDERS_KEY == "indexedFolders"
DEAD_LINKS_KEY == "deadLinkIds"

\* The placeholder stored as the chunk text of a title-only record.
Placeholder == <<"[Content could not be scraped...]">>

\* The chunk text of a search result whose bookmark has no ChunkRecord.
ContextNotAvailable == <<"Context not available.">>

\* ----------------------------------------------------------- the bookmark tree
\* The bookmark source: root "0" holds folder f1, f1 holds the sub-folder f2.
\* A bookmark node has an id, a title, a url and a parent folder ("none" once
\* the user has deleted it).  Titles are sequences of characters; a bookmark
\* may have an empty title.
Bookmarks == {"b1", "b2"}
BookmarkOrder == <<"b1", "b2">>
Folders == {"f1", "f2"}
RootNodes == <<"0">>
Titles == {<<>>, <<"T">>}

SubFolders(node) ==
    CASE node = "0" -> <<"f1">>
      [] node = "f1" -> <<"f2">>
      [] OTHER -> <<>>

IsFolder(node) == node \in Folders \cup {"0"}

Url(b) == <<"http://", b>>

InitialTree ==
    [b \in Bookmarks |->
        IF b = "b1" THEN [parentId |-> "f1", title |-> <<"T">>]
                    ELSE [parentId |-> "f2", title |-> <<>>]]

\* ------------------------------------------------------------------ helpers
Range(s) == {s[i] : i \in 1..Len(s)}

RECURSIVE BagOfSeq(_)
BagOfSeq(s) == IF s = <<>> THEN EmptyBag ELSE SetToBag({Head(s)}) (+) BagOfSeq(Tail(s))

\* ------------------------------------------------------------ pure functions
\* String.prototype.lastIndexOf(ch, fromIndex): the greatest 0-based position
\* p <= fromIndex holding ch, or -1.
lastIndexOf(text, ch, fromIndex) ==
    LET hits == {p \in 0..(Len(text) - 1) : p <= fromIndex /\ text[p + 1] = ch}
    IN IF hits = {} THEN -1 ELSE CHOOSE p \in hits : \A q \in hits : q <= p

\* String.prototype.substring(a, b) and substring(a), 0-based: both indices
\* are clamped to 0..length and swapped when a > b.
Clamp(i, length) == IF i < 0 THEN 0 ELSE IF i > length THEN length ELSE i

substring(text, a, b) ==
    LET from == Clamp(a, Len(text))
        to == Clamp(b, Len(text))
    IN IF from <= to THEN SubSeq(text, from + 1, to) ELSE SubSeq(text, to + 1, from)
substringFrom(text, a) == SubSeq(text, a + 1, Len(text))

WhiteSpace == {" ", "\t", "\n"}

\* String.prototype.trim(): leading and trailing white space removed.
RECURSIVE trimStart(_)
trimStart(text) ==
    IF text # <<>> /\ Head(text) \in WhiteSpace THEN trimStart(Tail(text)) ELSE text
RECURSIVE trimEnd(_)
trimEnd(text) ==
    IF text # <<>> /\ text[Len(text)] \in WhiteSpace
    THEN trimEnd(SubSeq(text, 1, Len(text) - 1)) ELSE text
trim(text) == trimEnd(trimStart(text))

\* chunkText(text, maxLength): greedy split at the last space at or before
\* maxLength, a hard cut at maxLength when there is none.
\* Faulty variant of SplitPos: every cut is a hard cut.
SplitPos_HardCut(text, maxLength) == maxLength

\* Faulty variant of SplitPos: the cut falls one character before the space.
SplitPos_BeforeSpace(text, maxLength) ==
    LET found == lastIndexOf(text, " ", maxLength)
    IN IF found <= 0 THEN maxLength ELSE IF found > 1 THEN found - 1 ELSE found

\* Faulty variant of SplitPos: a space at position 0 is taken as the cut.
SplitPos_AtLeadingSpace(text, maxLength) ==
    LET found == lastIndexOf(text, " ", maxLength)
    IN IF found < 0 THEN maxLength ELSE found

\* Lines 538-544.
SplitPos(text, maxLength) ==
    LET found == lastIndexOf(text, " ", maxLength)
    IN IF found <= 0 THEN maxLength ELSE found

RECURSIVE chunkText(_, _)
chunkText(text, maxLength) ==
    IF Len(text) = 0 THEN <<>>
    ELSE IF Len(text) <= maxLength THEN <<text>>
    ELSE LET splitPos == SplitPos(text, maxLength)
         IN <<substring(text, 0, splitPos)>>
                \o chunkText(trim(substringFrom(text, splitPos)), maxLength)

\* A scraped text is represented by what the worker reads of it: its length,
\* the number of its alphanumeric characters, whether its lowercase form
\* contains a configured anti-pattern, and the number of pieces chunkText cuts
\* title + "\n\n" + text into at the default maxLength.
NoText == [length |-> 0, alphanumeric |-> 0, antiPattern |-> FALSE, pieces |-> 0]

GoodTexts ==
    {[length |-> MIN_SCRAPE_LENGTH + DEFAULT_MAX_LENGTH * (n - 1),
      alphanumeric |-> (MIN_SCRAPE_LENGTH + DEFAULT_MAX_LENGTH * (n - 1)) \div 2,
      antiPattern |-> FALSE, pieces |-> n] : n \in 1..MaxChunks}

PoorTexts ==
    {[length |-> MIN_SCRAPE_LENGTH - 1, alphanumeric |-> MIN_SCRAPE_LENGTH - 1,
      antiPattern |-> FALSE, pieces |-> 1],
     [length |-> MIN_SCRAPE_LENGTH, alphanumeric |-> (MIN_SCRAPE_LENGTH \div 2) - 1,
      antiPattern |-> FALSE, pieces |-> 1],
     [length |-> MIN_SCRAPE_LENGTH, alphanumeric |-> MIN_SCRAPE_LENGTH,
      antiPattern |-> TRUE, pieces |-> 1]}

\* Faulty variant of isScrapeSuccessful: the two bounds are exclusive.
isScrapeSuccessful_Exclusive(text) ==
    IF text.length = 0 \/ text.length <= MIN_SCRAPE_LENGTH THEN FALSE
    ELSE IF text.alphanumeric = 0 THEN FALSE
    ELSE IF 2 * text.alphanumeric <= text.length THEN FALSE
    ELSE ~text.antiPattern

isScrapeSuccessful(text) ==
    IF text.length = 0 \/ text.length < MIN_SCRAPE_LENGTH THEN FALSE
    ELSE IF text.alphanumeric = 0 THEN FALSE
    ELSE IF 2 * text.alphanumeric < text.length THEN FALSE
    ELSE ~text.antiPattern

\* What the fetch of a page can come to, as the offscreen document sees it.
FetchOutcomes ==
    {[kind |-> "response", status |-> 200, html |-> TRUE, text |-> t] :
        t \in GoodTexts \cup PoorTexts}
    \cup {[kind |-> "response", status |-> st, html |-> TRUE, text |-> NoText] :
        st \in {404, 500}}
    \cup {[kind |-> "response", status |-> 200, html |-> FALSE, text |-> NoText]}
    \cup {[kind |-> k, status |-> 0, html |-> FALSE, text |-> NoText] :
        k \in {"abort", "network"}}

\* The scrape message gets no answer: the promise of sendMessage resolves to
\* undefined.
NoResponse == [kind |-> "none", status |-> 0, html |-> FALSE, text |-> NoText]

\* The outcomes the dead-link classification is meant for: a 4xx response or
\* a network-level failure.
DeadOutcomes ==
    {o \in FetchOutcomes : (o.kind = "response" /\ o.status \in 400..499)
                           \/ o.kind = "network"}

StatusText(st) == IF st = 404 THEN "Not Found" ELSE "Internal Server Error"

\* A message is the sequence of the pieces it is concatenated from; the first
\* piece is the first character of its template.
NoError == <<>>

\* scrape(url) of the offscreen document: {text} or {error}.
scrape(url, o) ==
    IF o.kind = "response" THEN
        IF o.status \notin 200..299
        THEN [error |-> <<"F", "ailed to fetch ">> \o url \o <<": ", StatusText(o.status)>>,
              text |-> NoText]
        ELSE IF ~o.html
        THEN [error |-> <<"U", "nsupported content type: ">>, text |-> NoText]
        ELSE [error |-> NoError, text |-> o.text]
    ELSE IF o.kind = "abort"
    THEN [error |-> <<"F", "ailed to scrape ">> \o url \o <<": Request timed out after 15 seconds.">>,
          text |-> NoText]
    ELSE [error |-> <<"F", "ailed to scrape ">> \o url \o <<": ", "Failed to fetch">>,
          text |-> NoText]

\* String.prototype.startsWith over pieces.
startsWith(msg, prefix) ==
    Len(msg) >= Len(prefix) /\ SubSeq(msg, 1, Len(prefix)) = prefix

isDeadLink(scrapeResult) ==
    IF scrapeResult.error = NoError THEN FALSE
    ELSE startsWith(scrapeResult.error, <<"[", "FETCH_FAILED:4">>)
         \/ startsWith(scrapeResult.error, <<"[", "NETWORK_ERROR]">>)

\* The vector the embedding provider returns for a text.
Embedding(text) == <<"vec:">> \o text

\* The chunks of title + "\n\n" + text of a page that passed the quality check.
PageChunks(bookmark, text) ==
    [k \in 1..text.pieces |-> <<bookmark.id, "#", ToString(k)>>]

\* getBookmarks(folderIds): the url children of every selected folder, in the
\* order traverse() meets the folders.
Node(b, t) == [id |-> b, title |-> t[b].title, url |-> Url(b)]

\* Faulty variant of UrlChildren: the bookmarks of the sub-folders as well.
UrlChildren_Deep(node, t) ==
    LET ids == SelectSeq(BookmarkOrder,
                         LAMBDA b : t[b].parentId = node
                                    \/ t[b].parentId \in Range(SubFolders(node)))
    IN [i \in 1..Len(ids) |-> Node(ids[i], t)]

UrlChildren(node, t) ==
    LET ids == SelectSeq(BookmarkOrder, LAMBDA b : t[b].parentId = node)
    IN [i \in 1..Len(ids) |-> Node(ids[i], t)]

RECURSIVE traverse(_, _, _)
traverse(nodes, t, foldersToSearch) ==
    IF nodes = <<>> THEN <<>>
    ELSE LET node == Head(nodes)
             own == IF node \in foldersToSearch /\ IsFolder(node)
                    THEN UrlChildren(node, t) ELSE <<>>
             below == IF IsFolder(node)
                      THEN traverse(SubFolders(node), t, foldersToSearch) ELSE <<>>
         IN own \o below \o traverse(Tail(nodes), t, foldersToSearch)

getBookmarks(folderIds, t) == traverse(RootNodes, t, folderIds)

\* ------------------------------------------------------------------ vectors
\* The numbers of a vector of the embedding provider.  The chunks of the two
\* bookmarks are ranked b1#1, b2#1, b1#2, b2#2, ...; against the query "q1"
\* the first three have cosine similarity 0.8, 0.6 and 0.3 and the others
\* less, each less than the one before; against "q2" the order is the reverse.
Queries == {<<"q1">>, <<"q2">>}

ChunkNumber(embedding) ==
    CHOOSE k \in 1..(MaxCorpus + MaxChunks) : embedding[4] = ToString(k)

Position(embedding) ==
    IF embedding[2] = "b1" THEN 2 * ChunkNumber(embedding) - 1
                           ELSE 2 * ChunkNumber(embedding)

Components(embedding) ==
    IF Len(embedding) = 2
    THEN CASE embedding[2] = "q1" -> <<1, 0, 0, 0>>
           [] embedding[2] = "q2" -> <<0, 1, 0, 0>>
           [] OTHER -> <<1, 1, 1, 1>>
    ELSE LET i == Position(embedding)
         IN CASE i = 1 -> <<4, 3, 0, 0>>
              [] i = 2 -> <<3, 4, 0, 0>>
              [] i = 3 -> <<3, 9, 3, 1>>
              [] OTHER -> <<1, i, 0, 0>>

RECURSIVE SumProducts(_, _, _)
SumProducts(vecA, vecB, i) ==
    IF i > Len(vecA) THEN 0 ELSE vecA[i] * vecB[i] + SumProducts(vecA, vecB, i + 1)

\* normalize(vector): the vector divided by its magnitude, a zero vector as it
\* is.  The result is kept as the numbers and the square of their divisor.
normalize(vector) ==
    LET sum == SumProducts(vector, vector, 1)
    IN IF sum = 0 THEN [x |-> vector, over2 |-> 1]
                  ELSE [x |-> vector, over2 |-> sum]

\* cosineSimilarity(vecA, vecB): dotProduct / (sqrt(normA) * sqrt(normB)), kept
\* as its three sums.
cosineSimilarity(vecA, vecB) ==
    [dotProduct |-> SumProducts(vecA, vecB, 1),
     normA |-> SumProducts(vecA, vecA, 1),
     normB |-> SumProducts(vecB, vecB, 1)]

\* Comparisons of similarities with non-negative dot products.
AtLeast(sim, threshold) ==
    threshold.den * threshold.den * sim.dotProduct * sim.dotProduct
        >= threshold.num * threshold.num * sim.normA * sim.normB

Above(simA, simB) ==
    simA.dotProduct * simA.dotProduct * simB.normA * simB.normB
        > simB.dotProduct * simB.dotProduct * simA.normA * simA.normB

\* Array.prototype.slice(start, end): negative positions count from the end.
slice(list, start, end) ==
    LET len == Len(list)
        from == IF start < 0 THEN (IF len + start > 0 THEN len + start ELSE 0)
                ELSE (IF start < len THEN start ELSE len)
        to == IF end < 0 THEN (IF len + end > 0 THEN len + end ELSE 0)
              ELSE (IF end < len THEN end ELSE len)
    IN IF from >= to THEN <<>> ELSE SubSeq(list, from + 1, to)

\* ------------------------------------------------------------ the ANN index
\* The Voy index holds one entry {id, title, url, embeddings} per vector: a
\* bag of entries.  remove() takes out the entries equal to the given ones.
VoyNew == EmptyBag
VoyAddBatch(index, resources) == index (+) BagOfSeq(resources)
VoyRemove(index, resources) == index (-) BagOfSeq(resources)
VoySerialize(index) == [entries |-> index]
VoyDeserialize(data) == data.entries

Resource(id, title, url, embedding) ==
    [id |-> id, title |-> title, url |-> url, embeddings |-> embedding]

\* search(query, k): the k entries nearest to the query, the nearest first,
\* each as {id, title, url, distance}; the distance falls as the cosine
\* similarity rises.
VoyDistance(queryVector, embedding) ==
    cosineSimilarity(queryVector.x, Components(embedding))

Neighbor(entry, queryVector) ==
    [id |-> entry.id, title |-> entry.title, url |-> entry.url,
     distance |-> VoyDistance(queryVector, entry.embeddings)]

\* The members of a set in a fixed order, and the place of one of them.
RECURSIVE Enumerate(_)
Enumerate(S) == IF S = {} THEN <<>>
                ELSE LET x == CHOOSE y \in S : TRUE IN <<x>> \o Enumerate(S \ {x})

PlaceIn(x, S) == CHOOSE i \in 1..Cardinality(S) : Enumerate(S)[i] = x

\* Entries at the same distance come in a fixed order of their own.
VoySearch(index, queryVector, k) ==
    LET scored == UNION {{[entry |-> e, copy |-> c,
                           sim |-> VoyDistance(queryVector, e.embeddings)] :
                             c \in 1..index[e]} : e \in BagToSet(index)}
        ranked == {[neighbor |-> Neighbor(x.entry, queryVector),
                    rank |-> Cardinality({y \in scored : Above(y.sim, x.sim)})
                             + PlaceIn(x, {y \in scored : ~Above(y.sim, x.sim)
                                                          /\ ~Above(x.sim, y.sim)})] :
                      x \in scored}
        sorted == [i \in 1..Cardinality(scored) |->
                      (CHOOSE r \in ranked : r.rank = i).neighbor]
    IN slice(sorted, 0, k)

\* -------------------------------------------------------------------- state
VARIABLES
    tree,               \* the bookmark source: bookmark id -> parentId, title
    bookmarks,          \* object store 'bookmarks': id -> BookmarkRecord
    embeddings,         \* object store 'embeddings': ChunkRecords in key order
    voy_index,          \* object store 'voy_index': {} or the record under 'main'
    storage,            \* chrome.storage.local: key -> value
    worker,             \* "boot" until initializationComplete resolves, then "ready"
    db,                 \* the IndexedDB connection: "open" or "closed"
    voyIndex,           \* the in-memory index: null, or its entries
    keepAliveInterval,  \* TRUE while the heartbeat timer is set
    sy,                 \* the frame of the running syncBookmarks call
    waiting,            \* the frame of a second syncBookmarks call, at an await
    cachedSearchResults, \* the result list of the last search that wrote it
    sr,                 \* the frames of the search calls
    out,                \* the last answers sent for getMoreResults, clearData, getStats
    h,                  \* history: what earlier steps saw, for the properties
    call,               \* the frame of a helper call run on its own
    nSyncs, nCrashes, nTreeEdits, nClears, nResumes

vars == <<tree, bookmarks, embeddings, voy_index, storage, worker, db, voyIndex,
          keepAliveInterval, sy, waiting, cachedSearchResults, sr, out, h, call,
          nSyncs, nCrashes, nTreeEdits, nClears, nResumes>>

persistent == <<bookmarks, embeddings, voy_index, storage>>
counters == <<nSyncs, nCrashes, nTreeEdits, nClears, nResumes>>
searching == <<cachedSearchResults, sr>>

Null == [isNull |-> TRUE, entries |-> EmptyBag]
Index(entries) == [isNull |-> FALSE, entries |-> entries]

NoOutcome == "none"

EmptyStore == <<>>

IdleFrame ==
    [pc |-> "idle", selectedFolderIds |-> {}, existingBookmarkIds |-> {},
     deadLinkIdsSet |-> {}, bookmarksInSelectedFolders |-> <<>>,
     idsToRemove |-> {}, resourcesToRemove |-> <<>>, bookmarksToAdd |-> <<>>,
     count |-> 0, outcome |-> NoOutcome, chunks |-> <<>>,
     fallback |-> FALSE, embeddingsToStore |-> <<>>, indexFailure |-> "none"]

\* The frame of a search call.  path: how the call ended ("noIndex",
\* "noEmbedding", "ranked"); results: the list it wrote to the cache.
SearchIds == 1..MaxSearches

IdleSearch ==
    [pc |-> "idle", query |-> <<>>, neighbors |-> <<>>, path |-> "none",
     results |-> <<>>, response |-> <<>>]

Pages == (0 - 1)..MaxPage

NoStats == [answered |-> FALSE, bookmarksCount |-> 0, embeddingsCount |-> 0]

NoAnswers ==
    [getMoreResults |-> [page |-> 1, results |-> <<>>],
     clearData |-> "none",
     getStats |-> NoStats,
     statusUpdate |-> <<>>]

\* The statusUpdate messages of lines 291, 331, 413 and 660, and sendStatus
\* (lines 633-635).  out.statusUpdate holds the ones pushed since the last
\* syncBookmarks call began.
Status(text, count, of) == [text |-> text, count |-> count, of |-> of]
Removing(n) == Status("Removing old entries...", n, n)
Indexing(count, of) == Status("Indexing", count, of)
SyncCompleteStatus == Status("Sync complete.", 0, 0)
ClearedStatus == Status("All data has been cleared.", 0, 0)

sendStatus(answers, status) ==
    [answers EXCEPT !.statusUpdate = Append(answers.statusUpdate, status)]

\* stored, dead: the ids in the bookmark store and in deadLinkIds when the
\* running sync began.  prevValid: the last sync ran to completion and neither
\* the tree nor the stores were changed from outside since; prevSelected: its
\* selection; unindexed: the bookmarks it processed without obtaining an
\* embedding.  rerun / dropped: the running sync repeats that selection /
\* drops exactly the folders in dropped from it.  embedded: the bookmarks the
\* running sync obtained an embedding for.  before: the records and entries
\* when the running sync began.  cleared: clearAllData has run in this life of
\* the worker.  completed: the search calls that have returned, in the order
\* of their return.  load: the way buildVoyIndex took in this life of the
\* worker.
NoBefore == [bookmarks |-> EmptyStore, embeddings |-> <<>>, entries |-> EmptyBag]

NoHistory ==
    [stored |-> {}, dead |-> {}, prevValid |-> FALSE, prevSelected |-> {},
     unindexed |-> {}, rerun |-> FALSE, dropped |-> {}, embedded |-> {},
     before |-> NoBefore, cleared |-> FALSE, completed |-> <<>>, load |-> "none"]

\* Lines 72-86: keepAlive() sets the interval unless it is set, stopKeepAlive()
\* clears it when it is set.  The timer is held as set / not set.
keepAlive(interval) == IF interval THEN interval ELSE TRUE

\* Faulty variant of stopKeepAlive: the interval is left running.
stopKeepAlive_Skipped(interval) == interval

stopKeepAlive(interval) == IF interval THEN FALSE ELSE interval

\* No helper call is being run on its own.
NoCall == [fn |-> "none"]

\* -------------------------------------------------------------- store access
getAllKeysFromStore(store) == DOMAIN store

\* getAllFromStore(BOOKMARKS_STORE): the records in key order.
getAllFromStore(store) ==
    LET ids == SelectSeq(BookmarkOrder, LAMBDA b : b \in DOMAIN store)
    IN [i \in 1..Len(ids) |-> store[ids[i]]]

\* getEmbeddingsByBookmarkIds: a cursor over bookmarkId_index, which orders the
\* ChunkRecords by bookmarkId and then by key.
RECURSIVE ByBookmarkId(_, _)
ByBookmarkId(ids, store) ==
    IF ids = <<>> THEN <<>>
    ELSE SelectSeq(store, LAMBDA r : r.bookmarkId = Head(ids))
            \o ByBookmarkId(Tail(ids), store)

getEmbeddingsByBookmarkIds(bookmarkIds, store) ==
    ByBookmarkId(SelectSeq(BookmarkOrder, LAMBDA b : b \in bookmarkIds), store)

storageGet(key) == IF key \in DOMAIN storage THEN storage[key] ELSE {}

\* Faulty variant of storageSet: the value is not written.
storageSet_Dropped(key, value) == storage

storageSet(key, value) == [k \in DOMAIN storage \cup {key} |->
                              IF k = key THEN value ELSE storage[k]]
storageRemove(key) == [k \in DOMAIN storage \ {key} |-> storage[k]]

\* --------------------------------------------------------------------- Init
\* A fresh installation: empty stores, nothing in chrome.storage.local, the
\* worker about to run its initialization.
Init ==
    /\ tree = InitialTree
    /\ bookmarks = EmptyStore
    /\ embeddings = <<>>
    /\ voy_index = {}
    /\ storage = <<>>
    /\ worker = "boot"
    /\ db = "closed"
    /\ voyIndex = Null
    /\ keepAliveInterval = FALSE
    /\ sy = IdleFrame
    /\ waiting = IdleFrame
    /\ cachedSearchResults = <<>>
    /\ sr = [id \in SearchIds |-> IdleSearch]
    /\ out = NoAnswers
    /\ h = NoHistory
    /\ call = NoCall
    /\ nSyncs = 0 /\ nCrashes = 0 /\ nTreeEdits = 0 /\ nClears = 0 /\ nResumes = 0

\* ------------------------------------------------ initialization (the load)
\* The resources buildVoyIndex rebuilds the index from: every ChunkRecord
\* joined with its BookmarkRecord.
RebuildResource(data) ==
    Resource(data.bookmarkId,
             IF data.bookmarkId \in DOMAIN bookmarks
                THEN bookmarks[data.bookmarkId].title ELSE <<"Untitled">>,
             IF data.bookmarkId \in DOMAIN bookmarks
                THEN bookmarks[data.bookmarkId].url ELSE <<>>,
             data.embedding)

\* Lines 147-155: the resources go into the index BATCH_SIZE at a time.
BATCH_SIZE == 1000

\* Faulty variant of AddInBatches: nothing is added.
AddInBatches_None(index, resources, i) == index

RECURSIVE AddInBatches(_, _, _)
AddInBatches(index, resources, i) ==
    IF i >= Len(resources) THEN index
    ELSE AddInBatches(VoyAddBatch(index, slice(resources, i, i + BATCH_SIZE)),
                      resources, i + BATCH_SIZE)

\* initializationComplete: openDB(), then buildVoyIndex().  deserializeOk,
\* addBatchOk and serializeOk are what Voy answers.
buildVoyIndex ==
    /\ worker = "boot"
    /\ worker' = "ready"
    /\ db' = "open"
    /\ keepAliveInterval' = stopKeepAlive(keepAlive(keepAliveInterval))
    /\ \E deserializeOk, addBatchOk, serializeOk \in BOOLEAN :
        IF voy_index # {} /\ deserializeOk
        THEN /\ voyIndex' = Index(VoyDeserialize((CHOOSE r \in voy_index : TRUE).data))
             /\ voy_index' = voy_index
             /\ h' = [h EXCEPT !.load = "deserialized"]
        ELSE IF embeddings = <<>>
        THEN /\ voyIndex' = Null
             /\ voy_index' = voy_index
             /\ h' = [h EXCEPT !.load = "empty"]
        ELSE IF ~addBatchOk
        THEN /\ voyIndex' = Null
             /\ voy_index' = voy_index
             /\ h' = [h EXCEPT !.load = "addFailed"]
        ELSE LET resources == [i \in 1..Len(embeddings) |-> RebuildResource(embeddings[i])]
                 newVoyIndex == AddInBatches(VoyNew, resources, 0)
             IN /\ voyIndex' = Index(newVoyIndex)
                /\ voy_index' = IF serializeOk
                                THEN {[id |-> "main", data |-> VoySerialize(newVoyIndex)]}
                                ELSE voy_index
                /\ h' = [h EXCEPT !.load = IF serializeOk THEN "rebuilt" ELSE "notSerialized"]
    /\ UNCHANGED <<call, waiting, tree, bookmarks, embeddings, storage, sy, counters,
                   searching, out>>

\* The host stops the worker (a crash, or the worker reclaimed): every global
\* is lost, the stores stay as committed, the next event starts the worker anew.
Crash ==
    /\ worker = "ready"
    /\ nCrashes < MaxCrashes
    /\ nCrashes' = nCrashes + 1
    /\ worker' = "boot"
    /\ db' = "closed"
    /\ voyIndex' = Null
    /\ keepAliveInterval' = FALSE
    /\ sy' = IdleFrame
    /\ waiting' = IdleFrame
    /\ cachedSearchResults' = <<>>
    /\ sr' = [id \in SearchIds |-> IdleSearch]
    /\ h' = [h EXCEPT !.cleared = FALSE, !.completed = <<>>, !.load = "none"]
    /\ UNCHANGED <<call, tree, persistent, nSyncs, nTreeEdits, nClears, nResumes, out>>

\* The user edits the bookmark tree: renames, moves or deletes a bookmark.
EditTree ==
    /\ worker = "ready" /\ sy.pc = "idle"
    /\ nTreeEdits < MaxTreeEdits
    /\ nTreeEdits' = nTreeEdits + 1
    /\ \E b \in Bookmarks :
        \/ \E t \in Titles \ {tree[b].title} :
              tree' = [tree EXCEPT ![b].title = t]
        \/ \E p \in (Folders \cup {"none"}) \ {tree[b].parentId} :
              tree' = [tree EXCEPT ![b].parentId = p]
    /\ h' = [h EXCEPT !.prevValid = FALSE]
    /\ UNCHANGED <<call, waiting, persistent, worker, db, voyIndex, keepAliveInterval, sy,
                   nSyncs, nCrashes, nClears, nResumes,
                   searching, out>>

\* ---------------------------------------------------------- syncBookmarks
\* The resources the cleanup phase hands to voyIndex.remove(): every
\* ChunkRecord of the ids to remove with the stored title and url.
RemoveResource(data, bookmarksToRemove) ==
    LET found == SelectSeq(bookmarksToRemove, LAMBDA b : b.id = data.bookmarkId)
    IN Resource(data.bookmarkId,
                IF found # <<>> THEN found[1].title ELSE <<>>,
                IF found # <<>> THEN found[1].url ELSE <<>>,
                data.embedding)

\* Faulty variant of IdsToRemove: the filter without its negation.
IdsToRemove_Kept(allBookmarkIdsInDb, selectedBookmarkIds) ==
    {id \in allBookmarkIdsInDb : id \in selectedBookmarkIds}

\* The ids of the cleanup phase: stored and not among the selected bookmarks.
IdsToRemove(allBookmarkIdsInDb, selectedBookmarkIds) ==
    {id \in allBookmarkIdsInDb : id \notin selectedBookmarkIds}

\* Lines 262-306: the heartbeat, the index handle, the reads and the diff.
\* With the connection closed the first read throws and the call ends in its
\* finally block.
SyncBegin(selectedFolderIds) ==
    /\ worker = "ready" /\ sy.pc = "idle"
    /\ nSyncs < MaxSyncs
    /\ nSyncs' = nSyncs + 1
    /\ voyIndex' = IF voyIndex.isNull THEN Index(VoyNew) ELSE voyIndex
    /\ IF db # "open"
       THEN /\ keepAliveInterval' = stopKeepAlive(keepAlive(keepAliveInterval))
            /\ sy' = IdleFrame
            /\ h' = [h EXCEPT !.prevValid = FALSE]
            /\ out' = [out EXCEPT !.statusUpdate = <<>>]
       ELSE LET existingBookmarkIds == getAllKeysFromStore(bookmarks)
                deadLinkIds == storageGet(DEAD_LINKS_KEY)
                bookmarksInSelectedFolders == getBookmarks(selectedFolderIds, tree)
                selectedBookmarkIds == {b.id : b \in Range(bookmarksInSelectedFolders)}
                allBookmarksInDb == getAllFromStore(bookmarks)
                allBookmarkIdsInDb == {b.id : b \in Range(allBookmarksInDb)}
                idsToRemove == IdsToRemove(allBookmarkIdsInDb, selectedBookmarkIds)
                bookmarksToRemove ==
                    SelectSeq(allBookmarksInDb, LAMBDA b : b.id \in idsToRemove)
                embeddingsToRemove == getEmbeddingsByBookmarkIds(idsToRemove, embeddings)
                resourcesToRemove ==
                    [i \in 1..Len(embeddingsToRemove) |->
                        RemoveResource(embeddingsToRemove[i], bookmarksToRemove)]
            IN /\ keepAliveInterval' = keepAlive(keepAliveInterval)
               /\ out' = IF idsToRemove # {}
                         THEN sendStatus([out EXCEPT !.statusUpdate = <<>>],
                                         Removing(Cardinality(idsToRemove)))
                         ELSE [out EXCEPT !.statusUpdate = <<>>]
               /\ sy' = [IdleFrame EXCEPT
                            !.pc = IF idsToRemove # {} THEN "removeIndex" ELSE "indexing",
                            !.selectedFolderIds = selectedFolderIds,
                            !.existingBookmarkIds = existingBookmarkIds,
                            !.deadLinkIdsSet = deadLinkIds,
                            !.bookmarksInSelectedFolders = bookmarksInSelectedFolders,
                            !.idsToRemove = idsToRemove,
                            !.resourcesToRemove = resourcesToRemove]
               /\ h' = [h EXCEPT
                            !.stored = DOMAIN bookmarks,
                            !.dead = storageGet(DEAD_LINKS_KEY),
                            !.rerun = h.prevValid /\ h.prevSelected = selectedFolderIds,
                            !.dropped = IF h.prevValid /\ selectedFolderIds \subseteq h.prevSelected
                                        THEN h.prevSelected \ selectedFolderIds ELSE {},
                            !.prevValid = FALSE,
                            !.embedded = {},
                            !.before = [bookmarks |-> bookmarks, embeddings |-> embeddings,
                                        entries |-> voyIndex'.entries]]
    /\ UNCHANGED <<call, waiting, tree, persistent, worker, db, nCrashes, nTreeEdits, nClears,
                   nResumes,
                   searching>>

\* Lines 308-311: voyIndex.remove() of the entries of the ids to remove.  The
\* call is a statement: what remove() answers is not read.
SyncRemoveFromIndex ==
    /\ worker = "ready" /\ sy.pc = "removeIndex"
    /\ IF Len(sy.resourcesToRemove) > 0
       THEN \E removed \in BOOLEAN :
               /\ voyIndex' = IF removed
                              THEN Index(VoyRemove(voyIndex.entries, sy.resourcesToRemove))
                              ELSE voyIndex
               /\ sy' = [sy EXCEPT !.pc = "removeDb",
                                   !.indexFailure = IF removed THEN "none" ELSE "remove"]
       ELSE /\ voyIndex' = voyIndex
            /\ sy' = [sy EXCEPT !.pc = "removeDb"]
    /\ UNCHANGED <<call, waiting, tree, persistent, worker, db, keepAliveInterval, h, counters,
                   searching, out>>

\* A statement of the try block throws (db.transaction() on a connection that
\* was closed): the call ends in the finally block of lines 414-416.
SyncThrows ==
    /\ sy' = IdleFrame
    /\ keepAliveInterval' = stopKeepAlive(keepAliveInterval)

\* removeBookmarks(bookmarkIds): one transaction over the three stores.
removeBookmarks(bookmarkIds) ==
    /\ voy_index' = {}
    /\ bookmarks' = [b \in DOMAIN bookmarks \ bookmarkIds |-> bookmarks[b]]
    /\ embeddings' = SelectSeq(embeddings, LAMBDA r : r.bookmarkId \notin bookmarkIds)

\* Line 313.
SyncRemoveBookmarks ==
    /\ worker = "ready" /\ sy.pc = "removeDb"
    /\ IF db = "open"
       THEN /\ removeBookmarks(sy.idsToRemove)
            /\ sy' = [sy EXCEPT !.pc = "indexing"]
            /\ keepAliveInterval' = keepAliveInterval
       ELSE SyncThrows /\ UNCHANGED <<bookmarks, embeddings, voy_index>>
    /\ UNCHANGED <<call, waiting, tree, storage, worker, db, voyIndex, h, counters,
                   searching, out>>

\* Faulty variant of BookmarksToAdd: the filter without the test for stored ids.
BookmarksToAdd_IgnoringStore(bookmarksInSelectedFolders, existingBookmarkIds, deadLinkIdsSet) ==
    SelectSeq(bookmarksInSelectedFolders, LAMBDA b : b.id \notin deadLinkIdsSet)

\* Lines 319-321: the bookmarks to index.
BookmarksToAdd(bookmarksInSelectedFolders, existingBookmarkIds, deadLinkIdsSet) ==
    SelectSeq(bookmarksInSelectedFolders,
              LAMBDA b : b.id \notin existingBookmarkIds /\ b.id \notin deadLinkIdsSet)

AfterBookmark(frame) ==
    IF frame.count < Len(frame.bookmarksToAdd) THEN "scrape" ELSE "storeEmbeddings"

\* Lines 317-327.
SyncPlanIndexing ==
    /\ worker = "ready" /\ sy.pc = "indexing"
    /\ LET bookmarksToAdd == BookmarksToAdd(sy.bookmarksInSelectedFolders,
                                            sy.existingBookmarkIds, sy.deadLinkIdsSet)
       IN sy' = [sy EXCEPT !.bookmarksToAdd = bookmarksToAdd,
                           !.pc = IF Len(bookmarksToAdd) > 0 THEN "scrape" ELSE "folders"]
    /\ UNCHANGED <<call, waiting, tree, persistent, worker, db, voyIndex, keepAliveInterval, h, counters,
                   searching, out>>

\* What the design means a fetch outcome to be: a dead link (4xx, network
\* failure), a soft failure (timeout, non-HTML content, text failing the
\* quality check), usable text; a 5xx response is none of these.
OutcomeClass(o) ==
    IF o \in DeadOutcomes THEN "DeadLink"
    ELSE IF o.kind = "abort" \/ (o.kind = "response" /\ o.status = 200 /\ ~o.html)
            \/ (o.kind = "response" /\ o.status = 200 /\ o.text \in PoorTexts)
    THEN "SoftFailure"
    ELSE IF o.kind = "response" /\ o.status = 200 THEN "Usable"
    ELSE "Other"

\* Lines 329-357: the scrape request for the next bookmark, its answer, and
\* what the answer is taken for: dead link, usable text, or the fallback to
\* the title.
\* Without an answer isDeadLink is false (line 254), the test of line 341
\* fails and result.error at line 355 throws: the call ends in its finally.
SyncScrape ==
    /\ worker = "ready" /\ sy.pc = "scrape"
    /\ \E o \in FetchOutcomes \cup {NoResponse} :
        LET count == sy.count + 1
            bookmark == sy.bookmarksToAdd[count]
            result == scrape(bookmark.url, o)
            frame == [sy EXCEPT !.count = count, !.outcome = OutcomeClass(o)]
        IN /\ keepAliveInterval' = IF o = NoResponse
                                    THEN stopKeepAlive(keepAliveInterval)
                                    ELSE keepAliveInterval
           /\ out' = sendStatus(out, Indexing(count, Len(sy.bookmarksToAdd)))
           /\ IF o = NoResponse
                 THEN /\ storage' = storage
                      /\ sy' = IdleFrame
                 ELSE IF isDeadLink(result)
                 THEN /\ storage' = storageSet(DEAD_LINKS_KEY, sy.deadLinkIdsSet \cup {bookmark.id})
                      /\ sy' = [frame EXCEPT !.deadLinkIdsSet = sy.deadLinkIdsSet \cup {bookmark.id},
                                             !.pc = AfterBookmark(frame)]
                 ELSE IF result.error = NoError /\ isScrapeSuccessful(result.text)
                 THEN /\ storage' = storage
                      /\ sy' = [frame EXCEPT !.chunks = PageChunks(bookmark, result.text),
                                             !.fallback = FALSE,
                                             !.pc = "embed"]
                 ELSE LET titleChunks == chunkText(bookmark.title, DEFAULT_MAX_LENGTH)
                      IN /\ storage' = storage
                         /\ sy' = IF Len(titleChunks) > 0
                                  THEN [frame EXCEPT !.chunks = <<titleChunks[1]>>,
                                                     !.fallback = TRUE,
                                                     !.pc = "embed"]
                                  ELSE [frame EXCEPT !.pc = AfterBookmark(frame)]
    /\ UNCHANGED <<call, waiting, tree, bookmarks, embeddings, voy_index, worker, db, voyIndex,
                   h, counters, searching>>

\* Faulty variant of putBookmark: the record is not written.
putBookmark_Dropped(store, bookmark) == store

\* bookmarksStore.put(bookmark) of storeData: keyPath 'id', an existing record
\* is overwritten.
putBookmark(store, bookmark) == (bookmark.id :> bookmark) @@ store

\* Faulty variant of storeData: the ChunkRecord without the id of its bookmark.
storeData_Unkeyed(bookmark, chunk, embedding) ==
    [bookmarkId |-> "", chunk |-> chunk, embedding |-> embedding]

\* storeData(bookmark, chunk, embedding) returns the ChunkRecord to store later.
storeData(bookmark, chunk, embedding) ==
    [bookmarkId |-> bookmark.id, chunk |-> chunk, embedding |-> embedding]

\* Faulty variant of StoredChunk: the embedded text is stored as it is.
StoredChunk_Verbatim(fallback, chunk) == chunk

\* The chunk text handed to storeData: the chunk of a scraped page (line 350),
\* the placeholder for a bookmark indexed by its title (line 360).
StoredChunk(fallback, chunk) == IF fallback THEN Placeholder ELSE chunk

\* Lines 345-363: getEmbedding for the next chunk; with a vector, storeData.
SyncEmbed ==
    /\ worker = "ready" /\ sy.pc = "embed"
    /\ LET bookmark == sy.bookmarksToAdd[sy.count]
           chunk == Head(sy.chunks)
           rest == Tail(sy.chunks)
           nextPc == IF rest # <<>> THEN "embed" ELSE AfterBookmark(sy)
       IN \E available \in BOOLEAN :
            IF available /\ db # "open"
            THEN SyncThrows /\ UNCHANGED <<bookmarks, h>>
            ELSE IF available
            THEN /\ keepAliveInterval' = keepAliveInterval
                 /\ bookmarks' = putBookmark(bookmarks, bookmark)
                 /\ sy' = [sy EXCEPT
                              !.embeddingsToStore =
                                  Append(sy.embeddingsToStore,
                                         storeData(bookmark,
                                                   StoredChunk(sy.fallback, chunk),
                                                   Embedding(chunk))),
                              !.chunks = rest,
                              !.pc = nextPc]
                 /\ h' = [h EXCEPT !.embedded = h.embedded \cup {bookmark.id}]
            ELSE /\ keepAliveInterval' = keepAliveInterval
                 /\ bookmarks' = bookmarks
                 /\ sy' = [sy EXCEPT !.chunks = rest, !.pc = nextPc]
                 /\ h' = h
    /\ UNCHANGED <<call, waiting, tree, embeddings, voy_index, storage, worker, db, voyIndex,
                   counters, searching, out>>

\* Lines 366-377: the new ChunkRecords, in one transaction.
SyncStoreEmbeddings ==
    /\ worker = "ready" /\ sy.pc = "storeEmbeddings"
    /\ IF Len(sy.embeddingsToStore) > 0 /\ db # "open"
       THEN SyncThrows /\ UNCHANGED embeddings
       ELSE /\ embeddings' = IF Len(sy.embeddingsToStore) > 0
                             THEN embeddings \o sy.embeddingsToStore ELSE embeddings
            /\ sy' = [sy EXCEPT !.pc = "invalidate"]
            /\ keepAliveInterval' = keepAliveInterval
    /\ UNCHANGED <<call, waiting, tree, bookmarks, voy_index, storage, worker, db, voyIndex,
                   h, counters, searching, out>>

\* Lines 379-383: the snapshot key deleted.
SyncInvalidate ==
    /\ worker = "ready" /\ sy.pc = "invalidate"
    /\ IF db # "open"
       THEN SyncThrows /\ UNCHANGED voy_index
       ELSE /\ voy_index' = {}
            /\ sy' = [sy EXCEPT !.pc = "addIndex"]
            /\ keepAliveInterval' = keepAliveInterval
    /\ UNCHANGED <<call, waiting, tree, bookmarks, embeddings, storage, worker, db, voyIndex,
                   h, counters, searching, out>>

\* Lines 387-392: the entry added for a new ChunkRecord.
NewResource(data, bookmarksToAdd) ==
    LET found == SelectSeq(bookmarksToAdd, LAMBDA b : b.id = data.bookmarkId)
        title == IF found # <<>> THEN found[1].title ELSE <<>>
        url == IF found # <<>> THEN found[1].url ELSE <<>>
    IN Resource(data.bookmarkId,
                IF title # <<>> THEN title ELSE <<"Untitled">>,
                url,
                data.embedding)

\* Lines 385-396: voyIndex.add_batch() of the new entries.  The call is a
\* statement: what add_batch() answers is not read.
SyncAddToIndex ==
    /\ worker = "ready" /\ sy.pc = "addIndex"
    /\ IF Len(sy.embeddingsToStore) > 0
       THEN \E added \in BOOLEAN :
               /\ voyIndex' = IF added
                              THEN Index(VoyAddBatch(voyIndex.entries,
                                       [i \in 1..Len(sy.embeddingsToStore) |->
                                           NewResource(sy.embeddingsToStore[i],
                                                       sy.bookmarksToAdd)]))
                              ELSE voyIndex
               /\ sy' = [sy EXCEPT !.pc = "folders",
                                   !.indexFailure = IF added THEN sy.indexFailure ELSE "add"]
       ELSE /\ voyIndex' = voyIndex
            /\ sy' = [sy EXCEPT !.pc = "folders"]
    /\ UNCHANGED <<call, waiting, tree, persistent, worker, db, keepAliveInterval, h, counters,
                   searching, out>>

\* Lines 399-400.
SyncSetFolders ==
    /\ worker = "ready" /\ sy.pc = "folders"
    /\ storage' = storageSet(INDEXED_FOLDERS_KEY, sy.selectedFolderIds)
    /\ sy' = [sy EXCEPT !.pc = "serialize"]
    /\ UNCHANGED <<call, waiting, tree, bookmarks, embeddings, voy_index, worker, db, voyIndex,
                   keepAliveInterval, h, counters,
                   searching, out>>

\* Lines 402-410: the index serialized and written under 'main'.
SyncSerialize ==
    /\ worker = "ready" /\ sy.pc = "serialize"
    /\ \E serializeOk \in BOOLEAN :
        IF serializeOk /\ db # "open"
        THEN SyncThrows /\ UNCHANGED voy_index
        ELSE /\ voy_index' = IF serializeOk
                             THEN {[id |-> "main", data |-> VoySerialize(voyIndex.entries)]}
                             ELSE voy_index
             /\ sy' = [sy EXCEPT !.pc = "complete"]
             /\ keepAliveInterval' = keepAliveInterval
    /\ UNCHANGED <<call, waiting, tree, bookmarks, embeddings, storage, worker, db, voyIndex,
                   h, counters, searching, out>>

\* Lines 412-416: 'Sync complete.' and the heartbeat stopped.
SyncComplete ==
    /\ worker = "ready" /\ sy.pc = "complete"
    /\ keepAliveInterval' = stopKeepAlive(keepAliveInterval)
    /\ h' = [h EXCEPT !.prevValid = TRUE,
                      !.prevSelected = sy.selectedFolderIds,
                      !.unindexed = {b.id : b \in Range(sy.bookmarksToAdd)} \ h.embedded,
                      !.rerun = FALSE, !.dropped = {}, !.embedded = {},
                      !.stored = {}, !.dead = {}, !.before = NoBefore]
    /\ sy' = IdleFrame
    /\ out' = sendStatus(out, SyncCompleteStatus)
    /\ UNCHANGED <<call, waiting, tree, persistent, worker, db, voyIndex, counters,
                   searching>>

\* ----------------------------------------------------------- clearAllData
\* Line 651 names INDEXED_folders_KEY, which no declaration of the file binds.
IndexedFoldersKeyResolves == FALSE

\* deleteDatabase() is blocked by the open connection, which onblocked closes;
\* the database is then deleted.  Evaluating the unbound name at line 651
\* throws, so the call ends in its finally block without reopening.
ClearAllData ==
    /\ worker = "ready"
    /\ nClears < MaxClears
    /\ nClears' = nClears + 1
    /\ bookmarks' = EmptyStore
    /\ embeddings' = <<>>
    /\ voy_index' = {}
    /\ IF IndexedFoldersKeyResolves
       THEN /\ storage' = storageRemove(INDEXED_FOLDERS_KEY)
            /\ db' = "open"
            /\ out' = sendStatus([out EXCEPT !.clearData = "undefined"], ClearedStatus)
       ELSE /\ storage' = storage
            /\ db' = "closed"
            /\ out' = [out EXCEPT !.clearData = "none"]
    /\ keepAliveInterval' = stopKeepAlive(keepAlive(keepAliveInterval))
    /\ h' = [h EXCEPT !.prevValid = FALSE, !.cleared = TRUE]
    /\ UNCHANGED <<call, waiting, tree, worker, voyIndex, sy, nSyncs, nCrashes, nTreeEdits,
                   nResumes,
                   searching>>

\* The clearData message handled while no syncBookmarks call is in progress.
clearAllData == sy.pc = "idle" /\ ClearAllData

\* The clearData message handled while a syncBookmarks call waits at one of
\* its awaits: the listener of lines 194-222 starts every handler at once.
clearAllDataDuringSync == sy.pc # "idle" /\ ClearAllData

\* ------------------------------------------------------------------- search
\* Lines 446-452: the first chunk met for a bookmark id.
embeddingsMap(relevantEmbeddings, id) ==
    LET found == SelectSeq(relevantEmbeddings, LAMBDA data : data.bookmarkId = id)
    IN IF found # <<>> THEN found[1].chunk ELSE ContextNotAvailable

\* Faulty variant of finalResults: one entry per bookmark id.
finalResults_OnePerBookmark(neighbors, relevantEmbeddings) ==
    LET first == SelectSeq([i \in 1..Len(neighbors) |-> i],
                           LAMBDA i : \A j \in 1..(i - 1) : neighbors[j].id # neighbors[i].id)
    IN [i \in 1..Len(first) |->
           [bookmarkId |-> neighbors[first[i]].id,
            title |-> neighbors[first[i]].title,
            url |-> neighbors[first[i]].url,
            chunk |-> embeddingsMap(relevantEmbeddings, neighbors[first[i]].id),
            distance |-> neighbors[first[i]].distance]]

\* Lines 454-460: one result per neighbor, in the order of the neighbors.
finalResults(neighbors, relevantEmbeddings) ==
    [i \in 1..Len(neighbors) |->
        [bookmarkId |-> neighbors[i].id,
         title |-> neighbors[i].title,
         url |-> neighbors[i].url,
         chunk |-> embeddingsMap(relevantEmbeddings, neighbors[i].id),
         distance |-> neighbors[i].distance]]

\* Lines 424-431: the cache emptied; without an index the call returns [].
SearchBegin(id, query) ==
    /\ worker = "ready" /\ sr[id].pc = "idle"
    /\ \A j \in SearchIds : j < id => sr[j].pc # "idle"
    /\ cachedSearchResults' = <<>>
    /\ IF voyIndex.isNull
       THEN /\ sr' = [sr EXCEPT ![id] = [IdleSearch EXCEPT !.pc = "done", !.query = query,
                                                          !.path = "noIndex"]]
            /\ h' = [h EXCEPT !.completed = Append(@, id)]
       ELSE /\ sr' = [sr EXCEPT ![id] = [IdleSearch EXCEPT !.pc = "embedding", !.query = query]]
            /\ h' = h
    /\ UNCHANGED <<call, waiting, tree, persistent, worker, db, voyIndex, keepAliveInterval, sy,
                   out, counters>>

\* Lines 433-442: the query embedded, normalized and handed to the index.
SearchEmbedded(id) ==
    /\ worker = "ready" /\ sr[id].pc = "embedding"
    /\ \E available \in BOOLEAN :
        IF ~available
        THEN /\ sr' = [sr EXCEPT ![id].pc = "done", ![id].path = "noEmbedding"]
             /\ h' = [h EXCEPT !.completed = Append(@, id)]
        ELSE LET queryEmbedding == Embedding(sr[id].query)
                 queryVector == normalize(Components(queryEmbedding))
             IN /\ sr' = [sr EXCEPT ![id].pc = "reading",
                                    ![id].neighbors =
                                        VoySearch(voyIndex.entries, queryVector, SEARCH_NEIGHBORS)]
                /\ h' = h
    /\ UNCHANGED <<call, waiting, tree, persistent, worker, db, voyIndex, keepAliveInterval, sy,
                   cachedSearchResults, out, counters>>

\* Lines 444-464: the chunk texts read, the results cached, the first page
\* returned.  With the connection closed the read throws and nothing is answered.
SearchFinish(id) ==
    /\ worker = "ready" /\ sr[id].pc = "reading"
    /\ IF db # "open"
       THEN /\ sr' = [sr EXCEPT ![id].pc = "done", ![id].path = "threw"]
            /\ cachedSearchResults' = cachedSearchResults
       ELSE LET neighborBookmarkIds == {n.id : n \in Range(sr[id].neighbors)}
                relevantEmbeddings == getEmbeddingsByBookmarkIds(neighborBookmarkIds, embeddings)
                results == finalResults(sr[id].neighbors, relevantEmbeddings)
            IN /\ cachedSearchResults' = results
               /\ sr' = [sr EXCEPT ![id].pc = "done", ![id].path = "ranked",
                                   ![id].results = results,
                                   ![id].response = slice(results, 0, SEARCH_RESULT_LIMIT)]
    /\ h' = [h EXCEPT !.completed = Append(@, id)]
    /\ UNCHANGED <<call, waiting, tree, persistent, worker, db, voyIndex, keepAliveInterval, sy,
                   out, counters>>

\* Faulty variant of PageStart: the page number not reduced by one.
PageStart_NotReduced(page) == page * SEARCH_RESULT_LIMIT

\* Line 468.
PageStart(page) == (page - 1) * SEARCH_RESULT_LIMIT

\* Lines 467-471: the page of the cached list.
getMoreResultsPage(cached, page) ==
    slice(cached, PageStart(page), PageStart(page) + SEARCH_RESULT_LIMIT)

getMoreResults(page) ==
    /\ worker = "ready"
    /\ out' = [out EXCEPT !.getMoreResults =
                   [page |-> page,
                    results |-> getMoreResultsPage(cachedSearchResults, page)]]
    /\ UNCHANGED <<call, waiting, tree, persistent, worker, db, voyIndex, keepAliveInterval, sy,
                   searching, h, counters>>

\* ----------------------------------------------------------------- getStats
Stats(bookmarksCount, embeddingsCount) ==
    [answered |-> TRUE, bookmarksCount |-> bookmarksCount,
     embeddingsCount |-> embeddingsCount]

\* Lines 666-694: the two counts; db.transaction() on a closed connection
\* throws inside the try, and the catch answers with zeros.
getStats ==
    /\ worker = "ready"
    /\ out' = [out EXCEPT !.getStats =
                   IF db = "open"
                   THEN Stats(Cardinality(DOMAIN bookmarks), Len(embeddings))
                   ELSE Stats(0, 0)]
    /\ UNCHANGED <<call, waiting, tree, persistent, worker, db, voyIndex,
                   keepAliveInterval, sy, searching, h, counters>>

\* ------------------------------------------------------------ specification
Next ==
    \/ buildVoyIndex
    \/ Crash
    \/ EditTree
    \/ \E selectedFolderIds \in SUBSET Folders : SyncBegin(selectedFolderIds)
    \/ SyncRemoveFromIndex
    \/ SyncRemoveBookmarks
    \/ SyncPlanIndexing
    \/ SyncScrape
    \/ SyncEmbed
    \/ SyncStoreEmbeddings
    \/ SyncInvalidate
    \/ SyncAddToIndex
    \/ SyncSetFolders
    \/ SyncSerialize
    \/ SyncComplete
    \/ clearAllData

Spec == Init /\ [][Next]_vars

\* The worker with clearData messages arriving during a sync as well.
NextOverlap ==
    \/ buildVoyIndex
    \/ \E selectedFolderIds \in SUBSET Folders : SyncBegin(selectedFolderIds)
    \/ SyncRemoveFromIndex
    \/ SyncRemoveBookmarks
    \/ SyncPlanIndexing
    \/ SyncScrape
    \/ SyncEmbed
    \/ SyncStoreEmbeddings
    \/ SyncInvalidate
    \/ SyncAddToIndex
    \/ SyncSetFolders
    \/ SyncSerialize
    \/ SyncComplete
    \/ clearAllData
    \/ clearAllDataDuringSync

SpecOverlap == Init /\ [][NextOverlap]_vars

\* The worker alive and syncing: a syncBookmarks call that has begun resumes
\* after each of its awaits (every fetch of it ends, by an answer or by its
\* timeout), so its steps are taken when they stay possible.
SyncStep ==
    \/ SyncRemoveFromIndex
    \/ SyncRemoveBookmarks
    \/ SyncPlanIndexing
    \/ SyncScrape
    \/ SyncEmbed
    \/ SyncStoreEmbeddings
    \/ SyncInvalidate
    \/ SyncAddToIndex
    \/ SyncSetFolders
    \/ SyncSerialize
    \/ SyncComplete

NextLive ==
    \/ buildVoyIndex
    \/ \E selectedFolderIds \in SUBSET Folders : SyncBegin(selectedFolderIds)
    \/ SyncStep

SpecLive == Init /\ [][NextLive]_vars /\ WF_vars(SyncStep)

\* Two syncBookmarks calls in progress at once: the listener of lines 194-214
\* starts a call for every message, and a call gives way at each of its
\* awaits.  The event loop goes on with the call that waited; the one that ran
\* waits in its place.
syncBookmarksResumed ==
    /\ worker = "ready"
    /\ waiting # sy
    /\ nResumes < MaxResumes
    /\ nResumes' = nResumes + 1
    /\ sy' = waiting
    /\ waiting' = sy
    /\ UNCHANGED <<call, tree, persistent, worker, db, voyIndex, keepAliveInterval,
                   searching, out, h, nSyncs, nCrashes, nTreeEdits, nClears>>

\* The sync button pressed twice with the same folder ticked.
NextSyncs ==
    \/ buildVoyIndex
    \/ EditTree
    \/ SyncBegin({"f1"})
    \/ SyncStep
    \/ syncBookmarksResumed

SpecSyncs == Init /\ [][NextSyncs]_vars

\* The search service over a corpus that a completed sync has indexed: the
\* pages of b1 and b2 cut into n chunks in all, every chunk embedded, the
\* worker stopped after the sync and starting anew.
CorpusSizes == {0, 3, MaxCorpus}

CorpusOf(b, pieces) ==
    LET bookmark == Node(b, InitialTree)
        chunks == PageChunks(bookmark, [pieces |-> pieces])
    IN [k \in 1..pieces |-> storeData(bookmark, chunks[k], Embedding(chunks[k]))]

CorpusChunks(n) == CorpusOf("b1", (n + 1) \div 2) \o CorpusOf("b2", n \div 2)

CorpusBookmarks(n) ==
    [b \in {r.bookmarkId : r \in Range(CorpusChunks(n))} |-> Node(b, InitialTree)]

CorpusIndex(n) ==
    LET added == [i \in 1..Len(BookmarkOrder) |-> Node(BookmarkOrder[i], InitialTree)]
    IN VoyAddBatch(VoyNew, [i \in 1..n |-> NewResource(CorpusChunks(n)[i], added)])

InitSearch ==
    /\ tree = InitialTree
    /\ \E n \in CorpusSizes :
        /\ bookmarks = CorpusBookmarks(n)
        /\ embeddings = CorpusChunks(n)
        /\ voy_index = {[id |-> "main", data |-> VoySerialize(CorpusIndex(n))]}
        /\ storage = (INDEXED_FOLDERS_KEY :> (IF n = 0 THEN {} ELSE Folders))
    /\ worker = "boot"
    /\ db = "closed"
    /\ voyIndex = Null
    /\ keepAliveInterval = FALSE
    /\ sy = IdleFrame
    /\ waiting = IdleFrame
    /\ cachedSearchResults = <<>>
    /\ sr = [id \in SearchIds |-> IdleSearch]
    /\ out = NoAnswers
    /\ h = NoHistory
    /\ call = NoCall
    /\ nSyncs = 0 /\ nCrashes = 0 /\ nTreeEdits = 0 /\ nClears = 0 /\ nResumes = 0

NextSearch ==
    \/ buildVoyIndex
    \/ Crash
    \/ \E id \in SearchIds, query \in Queries : SearchBegin(id, query)
    \/ \E id \in SearchIds : SearchEmbedded(id)
    \/ \E id \in SearchIds : SearchFinish(id)
    \/ \E page \in Pages : getMoreResults(page)

SpecSearch == InitSearch /\ [][NextSearch]_vars

\* The worker serving searches while it syncs: from a fresh installation, the
\* folder f2 synced and then deselected, searches for "q1" and requests for
\* their pages arriving at any time, also during a sync, and clearData.
NextServe ==
    \/ buildVoyIndex
    \/ \E selectedFolderIds \in {{}, {"f2"}} : SyncBegin(selectedFolderIds)
    \/ SyncStep
    \/ clearAllData
    \/ clearAllDataDuringSync
    \/ \E id \in SearchIds : SearchBegin(id, <<"q1">>)
    \/ \E id \in SearchIds : SearchEmbedded(id)
    \/ \E id \in SearchIds : SearchFinish(id)
    \/ \E page \in 1..2 : getMoreResults(page)
    \/ getStats

SpecServe == Init /\ [][NextServe]_vars

\* The worker alive and serving: a search call that has begun resumes after
\* each of its awaits (the embedding request and the store read end, by an
\* answer or by an error), so its steps are taken when they stay possible.
SearchStep ==
    \/ \E id \in SearchIds : SearchEmbedded(id)
    \/ \E id \in SearchIds : SearchFinish(id)

SpecServeLive == Init /\ [][NextServe]_vars /\ WF_vars(SearchStep) /\ WF_vars(SyncStep)

\* ------------------------------------------------------------ helper calls
\* The helpers of background.js run on their own, on inputs drawn from small
\* sets: getEmbedding against every sequence of answers of the provider.
MaxOverflow == 2

RETRY_PROMPT_LENGTH == 800
CONTEXT_LENGTH_ERROR == "the input length exceeds the context length"

\* String.prototype.includes over sequences.
includes(text, pattern) ==
    \E i \in 0..(Len(text) - Len(pattern)) :
        SubSeq(text, i + 1, i + Len(pattern)) = pattern

\* Prompts below, at and above the length the retry truncates to: n times
\* "a" followed by m times "b".
Prompt(n, m) == [i \in 1..(n + m) |-> IF i <= n THEN "a" ELSE "b"]

Prompts ==
    { Prompt(n, m) : n \in {0, 1, RETRY_PROMPT_LENGTH - 1, RETRY_PROMPT_LENGTH},
                     m \in 0..MaxOverflow }

\* What a fetch of the embeddings endpoint can come to: the fetch rejects
\* (provider not running), a 2xx answer whose JSON has an embedding, has none,
\* or does not parse, and a non-2xx answer with or without the
\* context-length message in its body.
ProviderResponses ==
    { [kind |-> "rejected", body |-> <<>>],
      [kind |-> "ok", body |-> <<"{", "embedding", "}">>],
      [kind |-> "ok", body |-> <<"{", "}">>],
      [kind |-> "ok", body |-> <<"<html>">>],
      [kind |-> "notOk", body |-> <<"{", "error:", CONTEXT_LENGTH_ERROR, "}">>],
      [kind |-> "notOk", body |-> <<"{", "error:", "model not found", "}">>] }

Pending == [kind |-> "pending", value |-> <<>>]
NullResult == [kind |-> "null", value |-> <<>>]
UndefinedResult == [kind |-> "undefined", value |-> <<>>]
Thrown == [kind |-> "thrown", value |-> <<>>]

\* Lines 501-502 and 510-511: response.json() and data.embedding.  json()
\* throws on a body that is no JSON, and the catch of line 512 returns null.
EmbeddingOf(response, prompt) ==
    IF response.body = <<"<html>">> THEN NullResult
    ELSE IF includes(response.body, <<"embedding">>)
         THEN [kind |-> "vector", value |-> Embedding(prompt)]
         ELSE UndefinedResult

\* Faulty variant of truncatedText: the retry sends the whole text again.
truncatedText_Whole(text) == text

\* Line 489.
truncatedText(text) == substring(text, 0, RETRY_PROMPT_LENGTH)

getEmbeddingCall(text) ==
    [fn |-> "getEmbedding", pc |-> "fetch", text |-> text, requests |-> <<>>,
     responses |-> <<>>, result |-> Pending]

\* Lines 478-511 up to the retry: the first fetch and what follows from its
\* answer.  Every throw is inside the try of line 477 and ends in the catch of
\* lines 512-515.
getEmbeddingFetch ==
    /\ call.fn = "getEmbedding" /\ call.pc = "fetch"
    /\ \E response \in ProviderResponses :
        LET retry == /\ response.kind = "notOk"
                     /\ includes(response.body, <<CONTEXT_LENGTH_ERROR>>)
        IN call' = [call EXCEPT
                       !.requests = <<call.text>>,
                       !.responses = <<response>>,
                       !.pc = IF retry THEN "retry" ELSE "returned",
                       !.result = IF retry THEN Pending
                                  ELSE IF response.kind = "ok"
                                       THEN EmbeddingOf(response, call.text)
                                       ELSE NullResult]
    /\ UNCHANGED <<tree, persistent, worker, db, voyIndex, keepAliveInterval, sy, waiting,
                   searching, out, h, counters>>

\* Lines 489-502: the retry with the truncated text.
getEmbeddingRetry ==
    /\ call.fn = "getEmbedding" /\ call.pc = "retry"
    /\ \E response \in ProviderResponses :
        call' = [call EXCEPT
                    !.requests = Append(call.requests, truncatedText(call.text)),
                    !.responses = Append(call.responses, response),
                    !.pc = "returned",
                    !.result = IF response.kind = "ok"
                               THEN EmbeddingOf(response, truncatedText(call.text))
                               ELSE NullResult]
    /\ UNCHANGED <<tree, persistent, worker, db, voyIndex, keepAliveInterval, sy, waiting,
                   searching, out, h, counters>>

\* Texts to chunk: every string of at most MaxTextLength characters over a
\* letter, the space and the newline, cut at 1..MaxChunkLength.
MaxTextLength == 6
MaxChunkLength == 3

Alphabet == {"a", " ", "\n"}

TextsOfLength(n) == [1..n -> Alphabet]

Texts == UNION { TextsOfLength(n) : n \in 0..MaxTextLength }

\* The frame of chunkText: text is the local the loop shortens, chunks the
\* array it fills.  offset, starts and cuts are history: where text begins in
\* the argument T, where each chunk began, and the text and splitPos of each
\* cut.
chunkTextCall(T, maxLength) ==
    [fn |-> "chunkText", pc |-> "loop", T |-> T, maxLength |-> maxLength,
     text |-> T, chunks |-> <<>>, offset |-> 0, starts |-> <<>>, cuts |-> <<>>]

\* Lines 532-549: one pass of the while loop.
chunkTextLoop ==
    /\ call.fn = "chunkText" /\ call.pc = "loop"
    /\ IF Len(call.text) = 0
       THEN call' = [call EXCEPT !.pc = "returned"]
       ELSE IF Len(call.text) <= call.maxLength
       THEN call' = [call EXCEPT !.chunks = Append(call.chunks, call.text),
                                 !.starts = Append(call.starts, call.offset),
                                 !.pc = "returned"]
       ELSE LET splitPos == SplitPos(call.text, call.maxLength)
                rest == substringFrom(call.text, splitPos)
            IN call' = [call EXCEPT
                           !.chunks = Append(call.chunks, substring(call.text, 0, splitPos)),
                           !.starts = Append(call.starts, call.offset),
                           !.cuts = Append(call.cuts, [text |-> call.text, splitPos |-> splitPos]),
                           !.text = trim(rest),
                           !.offset = call.offset + splitPos
                                          + (Len(rest) - Len(trimStart(rest)))]
    /\ UNCHANGED <<tree, persistent, worker, db, voyIndex, keepAliveInterval, sy, waiting,
                   searching, out, h, counters>>

\* The characters of the texts handed to the quality check, the ones
\* /[a-zA-Z0-9]/ matches among them, and String.prototype.toLowerCase.
Alphanumeric == {"a", "c", "p", "A", "C", "P", "7"}

LowerCase(ch) ==
    IF ch = "A" THEN "a" ELSE IF ch = "C" THEN "c" ELSE IF ch = "P" THEN "p" ELSE ch

toLowerCase(text) == [i \in 1..Len(text) |-> LowerCase(text[i])]

\* The lines of a scrape_clean.txt: a comment, a pattern written with a
\* capital and blanks around it, an empty line.
ScrapeCleanLines == << <<"#", " ", "c", "a", "p">>, <<" ", "C", "a", "p", " ">>, <<>> >>

\* Lines 59-62: each line trimmed and lowercased, empty lines and comments
\* dropped.
loadAntiPatterns(lines) ==
    { toLowerCase(trim(lines[i])) : i \in 1..Len(lines) }
        \ ({<<>>} \cup { toLowerCase(trim(lines[i])) : i \in
                            {j \in 1..Len(lines) : startsWith(toLowerCase(trim(lines[j])), <<"#">>)} })

\* SCRAPING_ANTI_PATTERNS: empty until loadAntiPatterns has run, and for good
\* when its fetch failed (lines 12, 64-66).
AntiPatternLists == { {}, loadAntiPatterns(ScrapeCleanLines) }

\* What isScrapeSuccessful reads of a text (lines 228, 234-246).
Features(text, patterns) ==
    [length |-> Len(text),
     alphanumeric |-> Cardinality({i \in 1..Len(text) : text[i] \in Alphanumeric}),
     antiPattern |-> \E pattern \in patterns : includes(toLowerCase(text), pattern),
     pieces |-> Len(chunkText(text, DEFAULT_MAX_LENGTH))]

\* Texts of n characters, the first k of them alphanumeric, that begin with
\* the pattern in lower or in upper case, or do not have it.
QualityText(n, k, variant) ==
    [i \in 1..n |->
        IF variant = "lower" /\ i <= 3 THEN <<"c", "a", "p">>[i]
        ELSE IF variant = "upper" /\ i <= 3 THEN <<"C", "A", "P">>[i]
        ELSE IF i <= k THEN (IF i % 2 = 0 THEN "7" ELSE "a")
        ELSE IF i % 5 = 0 THEN " " ELSE "."]

QualityTexts ==
    { QualityText(n, k, variant) :
        n \in {0} \cup ((MIN_SCRAPE_LENGTH - 1)..(MIN_SCRAPE_LENGTH + MaxOverflow)),
        k \in {0, (MIN_SCRAPE_LENGTH \div 2) - 1, MIN_SCRAPE_LENGTH \div 2,
               (MIN_SCRAPE_LENGTH \div 2) + 1, MIN_SCRAPE_LENGTH + MaxOverflow},
        variant \in {"plain", "lower", "upper"} }

isScrapeSuccessfulCall(text, patterns) ==
    [fn |-> "isScrapeSuccessful", pc |-> "called", text |-> text,
     SCRAPING_ANTI_PATTERNS |-> patterns, result |-> FALSE]

\* Lines 227-251 on a text.
isScrapeSuccessfulReturn ==
    /\ call.fn = "isScrapeSuccessful" /\ call.pc = "called"
    /\ call' = [call EXCEPT
                   !.pc = "returned",
                   !.result = isScrapeSuccessful(
                                  Features(call.text, call.SCRAPING_ANTI_PATTERNS))]
    /\ UNCHANGED <<tree, persistent, worker, db, voyIndex, keepAliveInterval, sy, waiting,
                   searching, out, h, counters>>

\* getBookmarks on its own: every placing of the two bookmarks in the folders
\* (or outside the tree), and every selection among the ids of the folders,
\* of the root and of a bookmark.
Trees ==
    [Bookmarks -> [parentId : Folders \cup {"none"}, title : Titles]]

Selections == SUBSET (Folders \cup {"0", "b1"})

getBookmarksCall(folderIds, t) ==
    [fn |-> "getBookmarks", pc |-> "called", folderIds |-> folderIds, tree |-> t,
     bookmarks |-> <<>>]

\* Lines 599-622 on the tree that getTree() hands over.
getBookmarksReturn ==
    /\ call.fn = "getBookmarks" /\ call.pc = "called"
    /\ call' = [call EXCEPT !.pc = "resolved",
                            !.bookmarks = getBookmarks(call.folderIds, call.tree)]
    /\ UNCHANGED <<tree, persistent, worker, db, voyIndex, keepAliveInterval, sy, waiting,
                   searching, out, h, counters>>

InitHelpers ==
    /\ tree = InitialTree
    /\ bookmarks = EmptyStore
    /\ embeddings = <<>>
    /\ voy_index = {}
    /\ storage = <<>>
    /\ worker = "ready"
    /\ db = "open"
    /\ voyIndex = Null
    /\ keepAliveInterval = FALSE
    /\ sy = IdleFrame
    /\ waiting = IdleFrame
    /\ cachedSearchResults = <<>>
    /\ sr = [id \in SearchIds |-> IdleSearch]
    /\ out = NoAnswers
    /\ h = NoHistory
    /\ call \in { getEmbeddingCall(text) : text \in Prompts }
                \cup { chunkTextCall(T, maxLength) :
                           T \in Texts, maxLength \in 1..MaxChunkLength }
                \cup { isScrapeSuccessfulCall(text, patterns) :
                           text \in QualityTexts, patterns \in AntiPatternLists }
                \cup { getBookmarksCall(folderIds, t) :
                           folderIds \in Selections, t \in Trees }
    /\ nSyncs = 0 /\ nCrashes = 0 /\ nTreeEdits = 0 /\ nClears = 0 /\ nResumes = 0

NextHelpers ==
    \/ getEmbeddingFetch
    \/ getEmbeddingRetry
    \/ chunkTextLoop
    \/ isScrapeSuccessfulReturn
    \/ getBookmarksReturn

SpecHelpers == InitHelpers /\ [][NextHelpers]_vars

\* A helper that was called runs on: the while loop of chunkText has no await,
\* so its next pass is taken as long as there is one.
SpecHelpersLive == InitHelpers /\ [][NextHelpers]_vars /\ WF_vars(chunkTextLoop)


\* =============================================================== properties
SyncPcs == {"removeIndex", "removeDb", "indexing", "scrape", "embed",
            "storeEmbeddings", "invalidate", "addIndex", "folders",
            "serialize", "complete"}

\* The positions of a sync at which bookmarksToAdd has been computed.
PlannedPcs == {"scrape", "embed", "storeEmbeddings", "invalidate", "addIndex",
               "folders", "serialize", "complete"}

\* The bookmarks a selection reaches in a tree: those whose parent folder is
\* selected.
ReachableIds(t, selected) == {b \in Bookmarks : t[b].parentId \in selected}

RECURSIVE SumOver(_, _)
SumOver(S, B) == IF S = {} THEN 0
                 ELSE LET x == CHOOSE y \in S : TRUE IN B[x] + SumOver(S \ {x}, B)

\* The entries of an index as a multiset of (bookmark id, vector).
EntryKeys(entries) ==
    LET S == BagToSet(entries)
        keys == {<<e.id, e.embeddings>> : e \in S}
    IN [k \in keys |-> SumOver({e \in S : <<e.id, e.embeddings>> = k}, entries)]

\* The ChunkRecords of the embeddings store as a multiset of (bookmarkId, vector).
ChunkKeys(store) ==
    BagOfSeq([i \in 1..Len(store) |-> <<store[i].bookmarkId, store[i].embedding>>])

\* C1: when a syncBookmarks call reaches 'Sync complete.', the in-memory index
\* holds exactly one entry per ChunkRecord of the embeddings store, keyed by
\* its bookmarkId.
C1_IndexEqualsChunksAtCompletion ==
    sy.pc = "complete" => EntryKeys(voyIndex.entries) = ChunkKeys(embeddings)

\* C2: in every reachable state, a snapshot present under 'main' serializes
\* exactly the ChunkRecords committed in the embeddings store.
C2_SnapshotEqualsChunks ==
    \A r \in voy_index : EntryKeys(VoyDeserialize(r.data)) = ChunkKeys(embeddings)

\* C3: in a sync, the snapshot key is deleted before the in-memory index is
\* mutated (remove or add_batch), and a snapshot is written only after the
\* mutations of the sync, at its serialization step.
C3_InvalidateBeforeMutate ==
    [][(sy.pc \in SyncPcs /\ worker' = "ready")
        => /\ (voyIndex'.entries # voyIndex.entries => voy_index = {})
           /\ (voy_index' # {} /\ voy_index' # voy_index => sy.pc = "serialize")]_vars

IdsOf(records) == {b.id : b \in Range(records)}

\* C4: in every sync, the set of ids removed is exactly the ids of the
\* bookmark store that are not among the bookmarks now reachable from
\* selectedFolderIds in the tree, whatever IndexedFolderSet persists.
C4_ToRemoveIsStoredNotReachable ==
    sy.pc \in SyncPcs =>
        sy.idsToRemove = h.stored \ ReachableIds(tree, sy.selectedFolderIds)

\* A sync that removes a bookmark although its selection is the persisted
\* IndexedFolderSet.
C4_Witness ==
    /\ sy.pc = "removeDb"
    /\ sy.idsToRemove # {}
    /\ INDEXED_FOLDERS_KEY \in DOMAIN storage
    /\ storage[INDEXED_FOLDERS_KEY] = sy.selectedFolderIds

\* C5: in every sync, the bookmarks processed for indexing are exactly the
\* bookmarks reachable from selectedFolderIds whose id was neither in the
\* bookmark store nor in deadLinkIds when the sync began, each listed once.
C5_ToAddIsReachableNotStoredNotDead ==
    sy.pc \in PlannedPcs =>
        /\ IdsOf(sy.bookmarksToAdd)
              = (ReachableIds(tree, sy.selectedFolderIds) \ h.stored) \ h.dead
        /\ Len(sy.bookmarksToAdd) = Cardinality(IdsOf(sy.bookmarksToAdd))
        /\ \A b \in Range(sy.bookmarksToAdd) : b = Node(b.id, tree)

\* A sync that indexes one reachable bookmark and leaves out another because
\* it is stored.
C5_Witness ==
    /\ sy.pc = "scrape"
    /\ Len(sy.bookmarksToAdd) > 0
    /\ ReachableIds(tree, sy.selectedFolderIds) \cap h.stored # {}

\* C6 as stated: a sync run again after a completed sync, with the same
\* selection and an unchanged tree, computes toAdd = [] and toRemove = [].
C6_RerunComputesNothing ==
    (h.rerun /\ sy.pc \in PlannedPcs) =>
        sy.bookmarksToAdd = <<>> /\ sy.idsToRemove = {}

\* C6 amended: such a sync computes toRemove = [] and toAdd = exactly the
\* bookmarks the completed sync processed without obtaining an embedding
\* (and did not record as dead); toAdd = [] when there is none.
C6_RerunRetriesOnlyUnindexed ==
    (h.rerun /\ sy.pc \in PlannedPcs) =>
        /\ sy.idsToRemove = {}
        /\ IdsOf(sy.bookmarksToAdd) = h.unindexed \ h.dead
        /\ (h.unindexed = {} => sy.bookmarksToAdd = <<>>)

\* A repeated sync over a stored corpus that finds nothing to add.
C6_Witness ==
    /\ h.rerun /\ sy.pc = "folders"
    /\ sy.bookmarksToAdd = <<>>
    /\ sy.existingBookmarkIds # {}

EntriesOf(entries, ids) ==
    LET S == {e \in BagToSet(entries) : e.id \in ids}
    IN [e \in S |-> entries[e]]

ChunksOf(store, ids) == SelectSeq(store, LAMBDA r : r.bookmarkId \in ids)

\* C7: a sync that drops one folder F from the selection of the completed
\* sync before it, on an unchanged tree, deletes exactly the BookmarkRecords
\* of F's bookmarks with all their ChunkRecords and index entries, and leaves
\* the records and entries of the other stored bookmarks as they were.
C7_RemovalCorrect ==
    (Cardinality(h.dropped) = 1 /\ sy.pc = "complete") =>
        LET gone == ReachableIds(tree, h.dropped)
            kept == DOMAIN h.before.bookmarks \ gone
        IN /\ DOMAIN h.before.bookmarks \ DOMAIN bookmarks
                = DOMAIN h.before.bookmarks \cap gone
           /\ ChunksOf(embeddings, gone) = <<>>
           /\ EntriesOf(voyIndex.entries, gone) = EmptyBag
           /\ \A b \in kept : b \in DOMAIN bookmarks
                              /\ bookmarks[b] = h.before.bookmarks[b]
           /\ ChunksOf(embeddings, kept) = ChunksOf(h.before.embeddings, kept)
           /\ EntriesOf(voyIndex.entries, kept) = EntriesOf(h.before.entries, kept)

\* C9: a bookmark whose fetch ended in a 4xx response or a network failure is
\* recorded in deadLinkIds and gets no BookmarkRecord and no ChunkRecord.
C9_DeadOutcomeRecorded ==
    (sy.pc \in SyncPcs /\ sy.outcome = "DeadLink") =>
        LET id == sy.bookmarksToAdd[sy.count].id
        IN /\ id \in storageGet(DEAD_LINKS_KEY)
           /\ id \notin DOMAIN bookmarks
           /\ \A r \in Range(sy.embeddingsToStore) : r.bookmarkId # id

\* C8, C10: the dead-link registry.  No id is in deadLinkIds together with a
\* BookmarkRecord, a ChunkRecord or an index entry.
DeadLinkInvariant ==
    \A id \in storageGet(DEAD_LINKS_KEY) :
        /\ id \notin DOMAIN bookmarks
        /\ ChunksOf(embeddings, {id}) = <<>>
        /\ EntriesOf(voyIndex.entries, {id}) = EmptyBag

\* No reachable state holds an id in deadLinkIds: no message scrape() builds
\* starts with a prefix isDeadLink() looks for.
DeadLinkRegistryEmpty == storageGet(DEAD_LINKS_KEY) = {}

C12_PerBookmarkFailureDoesNotAbort ==
    [][(sy.pc \in {"scrape", "embed"} /\ worker' = "ready") => sy'.pc \in SyncPcs]_vars

\* The brute-force ranking: every stored chunk scored against the query by
\* cosine similarity, scores under the threshold dropped, the best chunk of
\* each bookmark kept, the bookmarks in descending order of that score.
BruteForceRanking(queryEmbedding, store) ==
    LET scored == {[bookmarkId |-> store[i].bookmarkId, key |-> i,
                    sim |-> cosineSimilarity(Components(queryEmbedding),
                                             Components(store[i].embedding))] :
                      i \in 1..Len(store)}
        passing == {x \in scored : AtLeast(x.sim, SIMILARITY_THRESHOLD)}
        best == {x \in passing :
                    \A y \in passing : y.bookmarkId = x.bookmarkId =>
                        (~Above(y.sim, x.sim)
                         /\ (Above(x.sim, y.sim) \/ x.key <= y.key))}
        rank == [x \in best |-> Cardinality({y \in best : Above(y.sim, x.sim)}) + 1]
    IN [i \in 1..Cardinality(best) |-> (CHOOSE x \in best : rank[x] = i).bookmarkId]

BookmarkIdsOf(results) == [i \in 1..Len(results) |-> results[i].bookmarkId]

\* C13: a search that finds no index answers with the brute-force ranking of
\* the stored chunks.
C13_NoIndexSearchRanksByBruteForce ==
    \A id \in SearchIds :
        (sr[id].pc = "done" /\ sr[id].path = "noIndex") =>
            BookmarkIdsOf(sr[id].response)
                = BruteForceRanking(Embedding(sr[id].query), embeddings)

LastCompleted == h.completed[Len(h.completed)]

\* C14: when the search that returned last is one whose query could not be
\* embedded, the cache is empty (so every page served is empty).
C14_FailedSearchLeavesCacheEmpty ==
    (h.completed # <<>> /\ sr[LastCompleted].path = "noEmbedding") =>
        cachedSearchResults = <<>>

ClippedRange(list, from, to) ==
    SubSeq(list, from + 1, IF to < Len(list) THEN to ELSE Len(list))

ChunkTextsOf(store, id) == {r.chunk : r \in Range(ChunksOf(store, {id}))}

\* C15: a search that ranks with the index replaces the cache by one entry
\* {title, url, chunk, distance} per neighbor the index returned, in the
\* order of the neighbors, and answers with the first 30 of them.
C15_IndexSearchCachesAllNeighbors ==
    [][\A id \in SearchIds :
          (sr[id].pc = "reading" /\ sr'[id].pc = "done" /\ sr'[id].path = "ranked") =>
              LET neighbors == sr[id].neighbors
              IN /\ Len(neighbors) <= SEARCH_NEIGHBORS
                 /\ Len(cachedSearchResults') = Len(neighbors)
                 /\ \A i \in 1..Len(neighbors) :
                       /\ cachedSearchResults'[i].title = neighbors[i].title
                       /\ cachedSearchResults'[i].url = neighbors[i].url
                       /\ cachedSearchResults'[i].distance = neighbors[i].distance
                       /\ cachedSearchResults'[i].chunk
                             \in ChunkTextsOf(embeddings, neighbors[i].id)
                                 \cup {ContextNotAvailable}
                 /\ sr'[id].response
                       = ClippedRange(cachedSearchResults', 0, SEARCH_RESULT_LIMIT)]_vars

\* A search over the largest corpus has cached every entry of the index and
\* answered with a full first page.
C15_Witness ==
    \E id \in SearchIds :
        /\ sr[id].pc = "done" /\ sr[id].path = "ranked"
        /\ cachedSearchResults = sr[id].results
        /\ Len(cachedSearchResults) = MaxCorpus
        /\ Len(sr[id].response) = SEARCH_RESULT_LIMIT

RECURSIVE ConcatPages(_, _, _)
ConcatPages(cached, page, last) ==
    IF page > last THEN <<>>
    ELSE getMoreResultsPage(cached, page) \o ConcatPages(cached, page + 1, last)

\* C16: for every page p >= 1 getMoreResults answers with the cached entries
\* [(p-1)*30, p*30) clipped to the length of the cache and leaves the cache as
\* it is; page 1 is the page the search returned; the pages in a row are the
\* cached list.
C16_PagesPartitionCache ==
    [][/\ \A p \in 1..MaxPage :
             getMoreResultsPage(cachedSearchResults', p)
                 = ClippedRange(cachedSearchResults', (p - 1) * SEARCH_RESULT_LIMIT,
                                p * SEARCH_RESULT_LIMIT)
       /\ (out'.getMoreResults # out.getMoreResults /\ out'.getMoreResults.page >= 1) =>
             /\ out'.getMoreResults.results
                   = ClippedRange(cachedSearchResults,
                                  (out'.getMoreResults.page - 1) * SEARCH_RESULT_LIMIT,
                                  out'.getMoreResults.page * SEARCH_RESULT_LIMIT)
             /\ cachedSearchResults' = cachedSearchResults
       /\ (cachedSearchResults' # cachedSearchResults) =>
             (worker' = "boot" \/ \E id \in SearchIds : sr'[id].pc # sr[id].pc)
       /\ \A id \in SearchIds :
             (sr[id].pc = "reading" /\ sr'[id].pc = "done" /\ sr'[id].path = "ranked") =>
                 getMoreResultsPage(cachedSearchResults', 1) = sr'[id].response
       /\ (MaxPage * SEARCH_RESULT_LIMIT >= Len(cachedSearchResults')) =>
             ConcatPages(cachedSearchResults', 1, MaxPage) = cachedSearchResults']_vars

\* The second page of the largest cached list: what is left after the first 30.
C16_Witness ==
    /\ out.getMoreResults.page = 2
    /\ Len(cachedSearchResults) = MaxCorpus
    /\ out.getMoreResults.results
          = SubSeq(cachedSearchResults, SEARCH_RESULT_LIMIT + 1, MaxCorpus)

\* C17: for a page out of the range of the cached list (beyond the last page,
\* 0, or negative) getMoreResults answers with an empty page.
C17_OutOfRangePageIsEmpty ==
    [][(/\ out'.getMoreResults # out.getMoreResults
        /\ \/ out'.getMoreResults.page < 1
           \/ (out'.getMoreResults.page - 1) * SEARCH_RESULT_LIMIT
                  >= Len(cachedSearchResults))
       => out'.getMoreResults.results = <<>>]_vars

\* C18: once every search call has returned, the cache holds the full list of
\* the call that returned last.
C18_CacheIsLastCompletedSearch ==
    (h.completed # <<>> /\ \A id \in SearchIds : sr[id].pc \in {"idle", "done"}) =>
        cachedSearchResults = sr[LastCompleted].results

\* C19: after clearAllData the three stores hold no record and neither
\* deadLinkIds nor indexedFolders is left in chrome.storage.local.
C19_ClearEmptiesPersistedState ==
    h.cleared =>
        /\ bookmarks = EmptyStore /\ embeddings = <<>> /\ voy_index = {}
        /\ DEAD_LINKS_KEY \notin DOMAIN storage
        /\ INDEXED_FOLDERS_KEY \notin DOMAIN storage

\* C20: a clearData request is answered, and after it the connection is open
\* on empty stores and the in-memory index holds no entry.
C20_ClearAcknowledgedAndReinitialized ==
    h.cleared =>
        /\ out.clearData # "none"
        /\ db = "open"
        /\ bookmarks = EmptyStore /\ embeddings = <<>>
        /\ voyIndex.entries = EmptyBag


\* ------------------------------------------------------------------- C21
Failed(response) ==
    \/ response.kind \in {"rejected", "notOk"}
    \/ response.kind = "ok" /\ response.body = <<"<html>">>

First(text, n) == [i \in 1..(IF Len(text) < n THEN Len(text) ELSE n) |-> text[i]]

\* C21: getEmbedding calls the provider once with the text; it has made a
\* second call exactly when the first answer was a failure whose body has the
\* context-length message, and that call carried the first 800 characters of
\* the text; there is no third call; when the last answer is a failure, the
\* call returns null, and it never ends by throwing.
C21_GetEmbeddingRetriesOnceThenNull ==
    call.fn = "getEmbedding" =>
        /\ Len(call.requests) <= 2
        /\ Len(call.requests) = Len(call.responses)
        /\ call.pc # "fetch" => call.requests[1] = call.text
        /\ call.pc = "returned" =>
            /\ Len(call.requests) = 2 <=>
                   /\ call.responses[1].kind = "notOk"
                   /\ includes(call.responses[1].body, <<CONTEXT_LENGTH_ERROR>>)
            /\ Len(call.requests) = 2 =>
                   call.requests[2] = First(call.text, RETRY_PROMPT_LENGTH)
            /\ Failed(call.responses[Len(call.responses)]) =>
                   call.result = NullResult
            /\ call.result # Thrown
            /\ call.result # Pending

\* A text longer than 800 characters whose retry failed too.
C21_Witness ==
    /\ call.fn = "getEmbedding" /\ call.pc = "returned"
    /\ Len(call.text) > RETRY_PROMPT_LENGTH
    /\ Len(call.requests) = 2
    /\ Len(call.requests[2]) = RETRY_PROMPT_LENGTH
    /\ call.responses[2].kind = "notOk"
    /\ call.result = NullResult


\* ------------------------------------------------------------- C22, C23
\* A cut of text at splitPos splits a word: the characters on both sides of it
\* are no white space.
SplitsWord(cut) ==
    /\ cut.text[cut.splitPos] \notin WhiteSpace
    /\ cut.text[cut.splitPos + 1] \notin WhiteSpace

\* The chunks lie in T where starts says, one after the other.
InTextOrder(frame) ==
    /\ \A i \in 1..Len(frame.chunks) :
        frame.chunks[i] = SubSeq(frame.T, frame.starts[i] + 1,
                                 frame.starts[i] + Len(frame.chunks[i]))
    /\ \A i \in 1..(Len(frame.chunks) - 1) :
        frame.starts[i] + Len(frame.chunks[i]) <= frame.starts[i + 1]

\* C22: every chunk of chunkText(T, L), L >= 1, is at most L long, the chunks
\* are pieces of T in the order of T that do not overlap, and a cut splits a
\* word only when none of the first L characters of the remaining text is a
\* space, a tab or a newline.
C22_ChunksBoundedOrderedSplitOnlyWithoutWhitespace ==
    call.fn = "chunkText" =>
        /\ \A i \in 1..Len(call.chunks) : Len(call.chunks[i]) <= call.maxLength
        /\ InTextOrder(call)
        /\ \A k \in 1..Len(call.cuts) :
            SplitsWord(call.cuts[k]) =>
                \A p \in 1..call.maxLength : call.cuts[k].text[p] \notin WhiteSpace

\* C22 with the cut rule of lines 538-544: every chunk is at most L long, the
\* chunks are pieces of T in the order of T that do not overlap, and a cut
\* splits a word exactly when the remaining text has no space at the 0-based
\* positions 1..L and the characters on both sides of position L are no white
\* space.
C22_SplitOnlyWithoutSpace ==
    call.fn = "chunkText" =>
        /\ \A i \in 1..Len(call.chunks) : Len(call.chunks[i]) <= call.maxLength
        /\ InTextOrder(call)
        /\ call.pc = "returned" => call.chunks = chunkText(call.T, call.maxLength)
        /\ \A k \in 1..Len(call.cuts) :
            SplitsWord(call.cuts[k]) <=>
                /\ \A p \in 1..call.maxLength : call.cuts[k].text[p + 1] # " "
                /\ call.cuts[k].text[call.maxLength] \notin WhiteSpace
                /\ call.cuts[k].text[call.maxLength + 1] \notin WhiteSpace

\* A text cut once at a space and once in the middle of a word.
C22_Witness ==
    /\ call.fn = "chunkText" /\ call.pc = "returned"
    /\ \E k \in 1..Len(call.cuts) : SplitsWord(call.cuts[k])
    /\ \E k \in 1..Len(call.cuts) :
        /\ ~SplitsWord(call.cuts[k])
        /\ call.cuts[k].text[call.cuts[k].splitPos + 1] = " "

\* text.split(/\s+/) without the empty strings: the maximal runs of
\* characters that are no white space.
RECURSIVE Words(_)
Words(text) ==
    LET t == trimStart(text)
        ends == {n \in 1..Len(t) : n = Len(t) \/ t[n + 1] \in WhiteSpace}
        n == CHOOSE m \in ends : \A q \in ends : m <= q
    IN IF t = <<>> THEN <<>>
       ELSE <<SubSeq(t, 1, n)>> \o Words(SubSeq(t, n + 1, Len(t)))

\* chunks.join(' ')
RECURSIVE JoinWithSpaces(_)
JoinWithSpaces(chunks) ==
    IF chunks = <<>> THEN <<>>
    ELSE IF Len(chunks) = 1 THEN chunks[1]
    ELSE chunks[1] \o <<" ">> \o JoinWithSpaces(Tail(chunks))

\* C23: the chunks of chunkText(T, L) joined with single spaces have the word
\* sequence of T.
C23_JoinedChunksKeepWords ==
    call.fn = "chunkText" /\ call.pc = "returned" =>
        Words(JoinWithSpaces(call.chunks)) = Words(call.T)

\* Every maxLength consecutive characters of text have a space among them.
NoLongRun(text, maxLength) ==
    \A i \in 1..(Len(text) - maxLength + 1) :
        \E j \in i..(i + maxLength - 1) : text[j] = " "

\* C23 for the texts chunkText cuts at spaces only: when T has no run of L or
\* more characters without a space, the chunks joined with single spaces have
\* the word sequence of T.
C23_JoinedChunksKeepWordsWithoutLongRun ==
    call.fn = "chunkText" /\ call.pc = "returned"
            /\ NoLongRun(call.T, call.maxLength) =>
        Words(JoinWithSpaces(call.chunks)) = Words(call.T)

\* A text of several words cut twice at spaces.
C23_Witness ==
    /\ call.fn = "chunkText" /\ call.pc = "returned"
    /\ NoLongRun(call.T, call.maxLength)
    /\ Len(call.cuts) = 2
    /\ Len(Words(call.T)) = 3


\* ------------------------------------------------------------------- C24
AlphanumericCount(text) ==
    Cardinality({i \in 1..Len(text) : text[i] \in Alphanumeric})

\* C24: the quality check accepts a text exactly when it has at least 100
\* characters, at least half of them are alphanumeric, and its lowercase form
\* contains none of the anti-patterns in force; 100 characters and exactly one
\* half are accepted.
C24_QualityCheckAcceptsExactly ==
    call.fn = "isScrapeSuccessful" /\ call.pc = "returned" =>
        (call.result <=>
            /\ Len(call.text) >= MIN_SCRAPE_LENGTH
            /\ 2 * AlphanumericCount(call.text) >= Len(call.text)
            /\ \A pattern \in call.SCRAPING_ANTI_PATTERNS :
                ~includes(toLowerCase(call.text), pattern))

\* A text of exactly 100 characters, 50 of them alphanumeric, checked against
\* a loaded pattern list, is accepted.
C24_Witness ==
    /\ call.fn = "isScrapeSuccessful" /\ call.pc = "returned"
    /\ Len(call.text) = MIN_SCRAPE_LENGTH
    /\ 2 * AlphanumericCount(call.text) = Len(call.text)
    /\ call.SCRAPING_ANTI_PATTERNS = {<<"c", "a", "p">>}
    /\ call.result


\* ------------------------------------------------------------------- C25
\* A step of the load, and the title and url an entry rebuilt for a
\* ChunkRecord carries.
IsLoad == worker = "boot" /\ worker' = "ready"

JoinedWithBookmarks(entries) ==
    \A e \in BagToSet(entries) :
        e.id \in DOMAIN bookmarks =>
            e.title = bookmarks[e.id].title /\ e.url = bookmarks[e.id].url

FreshSnapshotWritten ==
    /\ Cardinality(voy_index') = 1
    /\ \A r \in voy_index' : r.id = "main" /\ VoyDeserialize(r.data) = voyIndex'.entries

RebuiltFromChunks ==
    /\ ~voyIndex'.isNull
    /\ EntryKeys(voyIndex'.entries) = ChunkKeys(embeddings)
    /\ JoinedWithBookmarks(voyIndex'.entries)

\* C25: a load whose snapshot deserializes takes the snapshot as the index and
\* writes nothing; otherwise, with an empty chunk store the index is null and
\* nothing is written, and with ChunkRecords the index is rebuilt with one
\* entry per ChunkRecord, joined with its BookmarkRecord, and a fresh snapshot
\* is written.
C25_LoadTakesSnapshotOrRebuildsAndSaves ==
    [][IsLoad =>
        /\ h'.load = "deserialized" =>
            /\ \E r \in voy_index : voyIndex' = Index(VoyDeserialize(r.data))
            /\ voy_index' = voy_index
        /\ h'.load # "deserialized" /\ embeddings = <<>> =>
            voyIndex' = Null /\ voy_index' = voy_index
        /\ h'.load # "deserialized" /\ embeddings # <<>> =>
            RebuiltFromChunks /\ FreshSnapshotWritten
        /\ UNCHANGED <<bookmarks, embeddings, storage>>]_vars

\* C25 with the answers of the index library: the rebuild ends with one entry
\* per ChunkRecord and a fresh snapshot when add_batch and serialize succeed;
\* when add_batch fails the index is null and nothing is written; when
\* serialize fails the rebuilt index is kept and nothing is written.
C25_LoadRebuildsUnlessIndexFails ==
    [][IsLoad =>
        /\ h'.load \in {"deserialized", "empty", "addFailed", "rebuilt", "notSerialized"}
        /\ h'.load = "deserialized" =>
            /\ \E r \in voy_index : voyIndex' = Index(VoyDeserialize(r.data))
            /\ voy_index' = voy_index
        /\ h'.load = "empty" <=> (h'.load # "deserialized" /\ embeddings = <<>>)
        /\ h'.load = "empty" => voyIndex' = Null /\ voy_index' = voy_index
        /\ h'.load = "rebuilt" => RebuiltFromChunks /\ FreshSnapshotWritten
        /\ h'.load = "addFailed" => voyIndex' = Null /\ voy_index' = voy_index
        /\ h'.load = "notSerialized" => RebuiltFromChunks /\ voy_index' = voy_index
        /\ UNCHANGED <<bookmarks, embeddings, storage>>]_vars

\* A worker that rebuilt its index from stored ChunkRecords and saved it.
C25_Witness ==
    /\ worker = "ready" /\ h.load = "rebuilt"
    /\ embeddings # <<>>
    /\ EntryKeys(voyIndex.entries) = ChunkKeys(embeddings)
    /\ voy_index # {}


\* ------------------------------------------------------------------- C26
\* C26: once remove() or add_batch() has reported failure in a sync, that sync
\* writes no record and no snapshot, deletes none, and does not come to
\* 'Sync complete.'.
C26_IndexFailureAbortsSync ==
    [][sy.indexFailure # "none" =>
        /\ UNCHANGED <<bookmarks, embeddings, voy_index>>
        /\ sy.pc # "complete"]_vars


\* ------------------------------------------------------------- C27, C28
\* C27: a sync that goes on past its first step has the heartbeat running
\* after that step; after the load, after clearAllData and whenever no sync is
\* in progress, however the last one ended, the heartbeat is not running.
C27_HeartbeatStartedAndStopped ==
    [][/\ (sy.pc = "idle" /\ sy'.pc # "idle") => keepAliveInterval'
       /\ sy'.pc = "idle" => ~keepAliveInterval'
       /\ (IsLoad \/ nClears' # nClears) => ~keepAliveInterval']_vars

\* A sync has run to 'Sync complete.' and the heartbeat is stopped.
C27_Witness ==
    /\ sy.pc = "idle" /\ h.prevValid
    /\ ~keepAliveInterval

\* C28: while a sync is in progress the heartbeat is running, also when a
\* clearAllData began and ended meanwhile.
C28_HeartbeatRunsWhileSyncInProgress ==
    sy.pc # "idle" => keepAliveInterval


\* ------------------------------------------------------------------- C29
Last(list) == list[Len(list)]

CompletePushed == out.statusUpdate # <<>> /\ Last(out.statusUpdate) = SyncCompleteStatus

\* When 'Sync complete.' is pushed, the deletions, the insertions, the
\* indexedFolders update and the snapshot write of the sync have been made.
C29_CompleteAfterWrites ==
    [][(out'.statusUpdate # out.statusUpdate /\ CompletePushed') =>
        /\ DOMAIN bookmarks \cap sy.idsToRemove = {}
        /\ ChunksOf(embeddings, sy.idsToRemove) = <<>>
        /\ \A r \in Range(sy.embeddingsToStore) :
            r \in Range(embeddings) /\ r.bookmarkId \in DOMAIN bookmarks
        /\ storageGet(INDEXED_FOLDERS_KEY) = sy.selectedFolderIds
        /\ \A r \in voy_index : VoyDeserialize(r.data) = voyIndex.entries]_vars

\* 'Sync complete.' is the last statusUpdate of its sync.
C29_CompleteIsLast ==
    \A i \in 1..(Len(out.statusUpdate) - 1) : out.statusUpdate[i] # SyncCompleteStatus

\* C29: every sync that has begun comes to push 'Sync complete.' (no storage
\* operation fails in these behaviours); the status is pushed after the
\* writes of the sync, and no statusUpdate of the sync follows it.
C29_SyncEventuallyCompletes ==
    /\ C29_CompleteAfterWrites
    /\ []C29_CompleteIsLast
    /\ \A n \in 1..MaxSyncs :
        (nSyncs = n /\ sy.pc # "idle") ~> (nSyncs = n /\ CompletePushed)


\* ------------------------------------------------------------------- C30
\* The bookmark the loop of the running sync has dealt with last, and the
\* ChunkRecords the sync holds or has stored for an id.
Current == sy.bookmarksToAdd[sy.count]

SoftFailureHandled ==
    /\ sy.pc \in {"scrape", "storeEmbeddings", "invalidate", "addIndex",
                  "folders", "serialize", "complete"}
    /\ sy.count > 0
    /\ sy.outcome = "SoftFailure"

RecordsOf(id) ==
    IF sy.pc \in {"scrape", "storeEmbeddings"}
    THEN SelectSeq(sy.embeddingsToStore, LAMBDA r : r.bookmarkId = id)
    ELSE ChunksOf(embeddings, {id})

IsTitleRecord(r, bookmark) ==
    /\ r.bookmarkId = bookmark.id
    /\ r.chunk = Placeholder
    /\ r.embedding = Embedding(bookmark.title)

\* C30: a bookmark whose fetch timed out, answered with another content type
\* than HTML, or gave a text that fails the quality check is not in
\* deadLinkIds and has exactly one ChunkRecord, with the placeholder as chunk
\* and the embedding of its title as vector.
C30_SoftFailureIndexedByTitle ==
    SoftFailureHandled =>
        /\ Current.id \notin storageGet(DEAD_LINKS_KEY)
        /\ Current.id \notin sy.deadLinkIdsSet
        /\ Len(RecordsOf(Current.id)) = 1
        /\ IsTitleRecord(RecordsOf(Current.id)[1], Current)

\* C30 with the two ways the title fallback leaves a bookmark without a
\* record: such a bookmark is not in deadLinkIds; it has exactly one
\* ChunkRecord, placeholder and embedding of the title, when its title is not
\* empty and getEmbedding returned a vector for it, and none otherwise.
C30_SoftFailureIndexedByTitleIfEmbedded ==
    SoftFailureHandled =>
        /\ Current.id \notin storageGet(DEAD_LINKS_KEY)
        /\ Current.id \notin sy.deadLinkIdsSet
        /\ Current.title = <<>> => Current.id \notin h.embedded
        /\ IF Current.id \in h.embedded
           THEN /\ Len(RecordsOf(Current.id)) = 1
                /\ IsTitleRecord(RecordsOf(Current.id)[1], Current)
                /\ Current.id \in DOMAIN bookmarks
           ELSE /\ RecordsOf(Current.id) = <<>>
                /\ Current.id \notin DOMAIN bookmarks

\* A completed pass over a bookmark whose page failed the quality check and
\* that was indexed by its title.
C30_Witness ==
    /\ SoftFailureHandled
    /\ sy.pc = "complete"
    /\ Current.id \in h.embedded
    /\ Len(ChunksOf(embeddings, {Current.id})) = 1
    /\ ChunksOf(embeddings, {Current.id})[1].chunk = Placeholder


\* ------------------------------------------------------------------- C31
\* IndexedFolderSet as the options page reads it: the value under
\* 'indexedFolders', the empty list while the key is absent.
IndexedFolderSet(store) ==
    IF INDEXED_FOLDERS_KEY \in DOMAIN store THEN store[INDEXED_FOLDERS_KEY] ELSE {}

\* C31: IndexedFolderSet is the selection of the most recent sync that ran to
\* 'Sync complete.' (empty before the first one); a sync that ends otherwise
\* leaves it as it was.  While a sync is between its write of line 400 and its
\* completion the new value is already there.
C31_FoldersAreLastCompletedSelection ==
    sy.pc \notin {"serialize", "complete"} => IndexedFolderSet(storage) = h.prevSelected

\* C31 for the write itself: IndexedFolderSet is changed by no step but the
\* one of line 400, which every sync reaches that gets past its index update,
\* also with nothing to add and nothing to remove, and which leaves the
\* selection of that sync under the key, whether or not the sync goes on to
\* 'Sync complete.'.
C31_FoldersWrittenAfterIndexUpdate ==
    [][/\ IndexedFolderSet(storage') # IndexedFolderSet(storage) => sy.pc = "folders"
       /\ (sy.pc = "folders" /\ worker' = "ready")
            => /\ INDEXED_FOLDERS_KEY \in DOMAIN storage'
               /\ storage'[INDEXED_FOLDERS_KEY] = sy.selectedFolderIds
               /\ sy'.pc = "serialize"
       /\ (sy.pc \in {"addIndex"} /\ worker' = "ready") => sy'.pc = "folders"]_vars

\* A sync with nothing to add and nothing to remove that has written a new
\* selection.
C31_Witness ==
    /\ sy.pc = "serialize"
    /\ sy.bookmarksToAdd = <<>> /\ sy.idsToRemove = {}
    /\ storage[INDEXED_FOLDERS_KEY] = sy.selectedFolderIds
    /\ sy.selectedFolderIds # h.prevSelected


\* ------------------------------------------------------------------- C32
\* C32: a BookmarkRecord that is stored keeps its title and url through every
\* step, whatever the tree says of its bookmark by now, and leaves the store
\* only in the removal transaction of a sync that lists its id, or in
\* clearAllData.
C32_BookmarkRecordImmutable ==
    [][\A b \in DOMAIN bookmarks :
          IF b \in DOMAIN bookmarks'
          THEN bookmarks'[b] = bookmarks[b]
          ELSE \/ sy.pc = "removeDb" /\ b \in sy.idsToRemove
               \/ nClears' = nClears + 1]_vars


\* ------------------------------------------------------------------- C33
\* C33: after every step each ChunkRecord of the embeddings store has the
\* BookmarkRecord of its bookmarkId in the bookmarks store; a step that takes
\* a BookmarkRecord out takes out its ChunkRecords and the snapshot with it;
\* a step that commits a ChunkRecord finds or commits its BookmarkRecord.
C33_ReferentialIntegrity ==
    [][/\ \A r \in Range(embeddings') : r.bookmarkId \in DOMAIN bookmarks'
       /\ \A b \in DOMAIN bookmarks \ DOMAIN bookmarks' :
             /\ \A r \in Range(embeddings') : r.bookmarkId # b
             /\ voy_index' = {}]_vars


\* ------------------------------------------------------------------- C34
\* C34: while no syncBookmarks call is in progress, also after a call that
\* ended in its finally block without completing and after the worker was
\* stopped during a call, every BookmarkRecord has at least one ChunkRecord.
C34_StoredBookmarkHasChunk ==
    sy.pc = "idle" =>
        \A b \in DOMAIN bookmarks : ChunksOf(embeddings, {b}) # <<>>


\* ------------------------------------------------------------------- C35
\* C35: every entry of a list that a search caches and returns names a
\* bookmark with a BookmarkRecord, and its chunk is the text of a ChunkRecord
\* of that bookmark, in the stores as the search read them; the pages
\* getMoreResults returns hold entries of that list only.  Searches run at
\* any point of a sync and before or after clearData.
C35_ResultsReferToStoredChunks ==
    [][/\ \A id \in SearchIds :
             (sr[id].pc = "reading" /\ sr'[id].pc = "done" /\ sr'[id].path = "ranked")
                => \A e \in Range(sr'[id].results) :
                      /\ e.bookmarkId \in DOMAIN bookmarks
                      /\ \E r \in Range(embeddings) :
                            r.bookmarkId = e.bookmarkId /\ r.chunk = e.chunk
       /\ out'.getMoreResults # out.getMoreResults
            => Range(out'.getMoreResults.results) \subseteq Range(cachedSearchResults)]_vars


\* ------------------------------------------------------------------- C36
\* A search call has sent its response: it returned a list (empty without an
\* index or without an embedding of the query), which the listener hands to
\* sendResponse; a call that threw sends none.
Responded(id) == sr[id].pc = "done" /\ sr[id].path # "threw"

\* C36: every search request that the worker has begun to handle is
\* eventually answered, also when the call fails; every clearData request is
\* answered, also when clearAllData fails; every getStats request handled is
\* answered with counts.
C36_EveryRequestAnswered ==
    /\ \A id \in SearchIds : (sr[id].pc \in {"embedding", "reading"}) ~> Responded(id)
    /\ [](nClears > 0 => out.clearData # "none")
    /\ [][out'.getStats # out.getStats => out'.getStats.answered]_vars


\* ------------------------------------------------------------------- C37
\* A vector of numbers x, each over the square root of over2, has the length
\* one, or is the zero vector.
UnitOrZero(x, over2) ==
    LET sum == SumProducts(x, x, 1) IN sum = over2 \/ sum = 0

ZeroVector == <<0, 0, 0, 0>>

\* C37: every vector held by the in-memory index and every query vector a
\* search has handed to it is a normalized one (of length one, or zero), and
\* normalize gives a zero vector back as it is.
C37_IndexHoldsNormalizedVectors ==
    /\ \A e \in BagToSet(voyIndex.entries) : UnitOrZero(Components(e.embeddings), 1)
    /\ \A id \in SearchIds :
          sr[id].pc \in {"reading", "done"} /\ sr[id].path \in {"none", "ranked", "threw"}
             => LET queryVector == normalize(Components(Embedding(sr[id].query)))
                IN UnitOrZero(queryVector.x, queryVector.over2)
    /\ normalize(ZeroVector) = [x |-> ZeroVector, over2 |-> 1]


\* ------------------------------------------------------------------- C38
\* C38: the bookmarks getBookmarks resolves to are the bookmarks whose parent
\* is one of the selected folders, each once and with the title and url of
\* the tree; a bookmark whose parent is an unselected sub-folder of a selected
\* folder is not among them.
C38_ReachableAreDirectChildren ==
    (call.fn = "getBookmarks" /\ call.pc = "resolved") =>
        /\ IdsOf(call.bookmarks) = ReachableIds(call.tree, call.folderIds)
        /\ Len(call.bookmarks) = Cardinality(IdsOf(call.bookmarks))
        /\ \A i \in 1..Len(call.bookmarks) :
              call.bookmarks[i] = Node(call.bookmarks[i].id, call.tree)
        /\ \A b \in Bookmarks :
              (call.tree[b].parentId = "f2" /\ "f2" \notin call.folderIds)
                 => b \notin IdsOf(call.bookmarks)

\* The folder f1 selected alone, with one bookmark in it and one in its
\* sub-folder f2.
C38_Witness ==
    /\ call.fn = "getBookmarks" /\ call.pc = "resolved"
    /\ call.folderIds = {"f1"}
    /\ call.tree["b1"].parentId = "f1" /\ call.tree["b2"].parentId = "f2"
    /\ IdsOf(call.bookmarks) = {"b1"}


\* ------------------------------------------------------------------- C39
\* C39: every call of chunkText returns; every pass of its loop over a
\* non-empty text pushes a non-empty chunk and either leaves a shorter text
\* for the next pass or is the last one; the list returned is empty exactly
\* when the text handed in is empty.
C39_ChunkTextTerminates ==
    /\ (call.fn = "chunkText" /\ call.pc = "loop") ~> (call.pc = "returned")
    /\ [][(call.fn = "chunkText" /\ call.pc = "loop" /\ Len(call.text) > 0)
            => /\ Len(call'.chunks) = Len(call.chunks) + 1
               /\ Len(call'.chunks[Len(call'.chunks)]) > 0
               /\ Len(call'.text) < Len(call.text) \/ call'.pc = "returned"]_vars
    /\ []((call.fn = "chunkText" /\ call.pc = "returned")
            => (call.chunks = <<>> <=> call.T = <<>>))

\* A call that has returned after more than one pass, one of them a hard cut
\* and one a cut at a space.
C39_Witness ==
    /\ call.fn = "chunkText" /\ call.pc = "returned"
    /\ Len(call.chunks) >= 3
    /\ \E i \in 1..Len(call.cuts) : call.cuts[i].splitPos = call.maxLength
    /\ \E i \in 1..Len(call.cuts) : call.cuts[i].splitPos < call.maxLength

====
